---- MODULE Spec2Model ----
(***************************************************************************)
(* Model of the harbor backend: the quote cache and the redemption         *)
(* (POST /datasets) handler of src/src/routes/dataRoute.ts, with the API   *)
(* key middleware, the credential vault (src/unnamed/part_002) and the     *)
(* storage gateway helper (src/src/services/pinata.ts).                    *)
(*                                                                         *)
(* Every await of a middleware or handler is a step: the awaited call      *)
(* returns or throws, and the synchronous code up to the next await runs.  *)
(* A call of the database is two steps, the database executing it and the  *)
(* call returning; requests, the clock and other clients interleave.       *)
(***************************************************************************)
EXTENDS Integers, Sequences, FiniteSets, Bags, TLC

\* ------------------------------------------------------------------ bounds
\* Longest tokenIds list a request body carries.
MaxIds == 2
\* Last instant of the clock (milliseconds).
MaxNow == 10001

\* Issuance requests (POST /api-keys) that pass authentication.
MaxAsk == 6
\* Rows of the ApiKeyUsage table.
MaxUsage == 2
\* Requests apiKeyRateLimit lets through, all keys together.
MaxHits == 3
\* Largest requestsPerMinute a limiter is built with.
MaxRate == 2
MaxEmpty == 1

\* ------------------------------------------------------- program constants
\* createKeyLimiter: `windowMs: 24 * 60 * 60 * 1000` and `max: 5`.
WindowMs == 86400000
MaxIssue == 5
\* Quote time-to-live in ms: `Date.now() - quote.timestamp > 10000`.
TTL == 10000

\* ------------------------------------------------------------ value spaces
\* The redemption requests of one behaviour: two, so that they can overlap.
Reqs == {1, 2}
\* The instants the clock is read at: the first, and those from one TTL
\* after it on, so that ages of 0, TTL and TTL + 1 all occur.
Instants == {0} \cup (TTL..MaxNow)

NoKey == "NoKey"            \* no x-api-key header
NoHash == "NoHash"          \* body without quoteHash (falsy)
NoValue == "NoValue"        \* a null column, an unassigned local
Undefined == "undefined"    \* a string property a JS object does not have
NoName == <<>>              \* dataset.name of an entry stored without one
NoBlob == <<>>              \* a null ciphertext or auth tag column
\* res not yet written
NoResponse == [status |-> 0, message |-> "", datasets |-> <<>>]
\* a request that has not arrived
NoBody == [apiKey |-> NoKey, isArray |-> FALSE, tokenIds |-> <<>>,
           quoteHash |-> NoHash]
\* req.wallet before the middleware attaches it
NoWallet == [address |-> NoValue, encryptedPrivateKey |-> NoBlob,
             keyPairIV |-> NoValue, keyPairAuthTag |-> NoBlob]
DecryptError == "DecryptError"

\* Values crypto.randomBytes(32).toString("hex") returns for a quote, in the
\* order it returns them.
TokenOrder == <<"t1", "t2">>
Tokens == {TokenOrder[i] : i \in 1..Len(TokenOrder)}
\* Dataset token ids known to the registry contract.
Datasets == {1, 2, 3}

\* The process-wide AES-256-GCM key.
ENCRYPTION_KEY == "K"

\* The on-chain registry: getDatasetMetadata(id) as
\* [name, description, contentHash, ipfsHash, currentPrice, tags].
\* A name and a content type are sequences of fragments, so that
\* String.includes is a search for a fragment; the names of datasets 1 and
\* 3 spell their extension in upper case.  Dataset 3 has an empty content
\* locator.
Catalog ==
    (1 :> [name |-> <<"Prices", ".CSV">>, description |-> "d1",
           ipfsHash |-> "Qm1", currentPrice |-> 10, tags |-> {"finance"},
           contentType |-> <<"application/octet-stream">>])
 @@ (2 :> [name |-> <<"report">>, description |-> "d2",
           ipfsHash |-> "Qm2", currentPrice |-> 5, tags |-> {"finance"},
           contentType |-> <<"application/json", "; charset=utf-8">>])
 @@ (3 :> [name |-> <<"Sheet", ".XLSX">>, description |-> "d3",
           ipfsHash |-> "", currentPrice |-> 0, tags |-> {"misc"},
           contentType |-> <<"text/plain">>])

\* ------------------------------------------------------------- pure helpers
RECURSIVE SetSum(_, _)
\* Sum of f[x] over the finite set S.
SetSum(f, S) ==
    IF S = {} THEN 0
    ELSE LET x == CHOOSE y \in S : TRUE IN f[x] + SetSum(f, S \ {x})

\* String.prototype.includes on a fragment sequence.
includes(str, frag) == \E i \in 1..Len(str) : str[i] = frag

\* String.prototype.toLowerCase, fragment by fragment.
toLowerCase(str) ==
    [i \in 1..Len(str) |->
        CASE str[i] = "Prices" -> "prices"
          [] str[i] = ".CSV" -> ".csv"
          [] str[i] = "Sheet" -> "sheet"
          [] str[i] = ".XLSX" -> ".xlsx"
          [] OTHER -> str[i]]

\* hashApiKey: SHA-256 hex digest of the plaintext key (injective here).
hashApiKey(apiKey) == <<"sha256", apiKey>>

\* encryptData: AES-256-GCM under ENCRYPTION_KEY with the drawn iv.
encryptData(data, iv) ==
    [encryptedData |-> <<"ct", data, iv, ENCRYPTION_KEY>>,
     iv |-> iv,
     authTag |-> <<"tag", data, iv, ENCRYPTION_KEY>>]

\* The ways a hex string spells (part of) a 16-byte tag besides the
\* lower-case digits authTag.toString("hex") produces: the same digits in
\* upper case, and the digits of its first 4 or first 3 bytes only.  A tag
\* string is <<"tag", data, iv, key>>, with the spelling appended if it is
\* not the produced one.
Spellings == {"upper", "first4", "first3"}

\* Buffer.from(authTag, "hex"): the bytes the string decodes to, as the
\* 16-byte tag they are a prefix of and their number.  Hex digits decode
\* alike in either case.
fromHex(authTag) ==
    [tag |-> SubSeq(authTag, 1, 4),
     len |-> IF Len(authTag) = 4 \/ authTag[5] = "upper" THEN 16
             ELSE IF authTag[5] = "first4" THEN 4 ELSE 3]

\* The tag lengths decipher.setAuthTag accepts for aes-256-gcm when
\* createDecipheriv was given no authTagLength.
GcmTagLengths == {4, 8, 12, 13, 14, 15, 16}

\* decryptData: the plaintext when the tag bytes have an accepted length and
\* verify, over that length, under ENCRYPTION_KEY and the iv; a thrown error
\* otherwise.
decryptData(encryptedData, iv, authTag) ==
    LET given == fromHex(authTag) IN
    IF /\ encryptedData[3] = iv
       /\ encryptedData[4] = ENCRYPTION_KEY
       /\ given.len \in GcmTagLengths
       /\ given.tag = <<"tag", encryptedData[2], iv, ENCRYPTION_KEY>>
    THEN encryptedData[2]
    ELSE DecryptError

\* getFromPinata: throws on an empty hash, else the gateway URL.
getFromPinata(ipfsHash) ==
    IF ipfsHash = "" THEN [ok |-> FALSE, url |-> "IPFS hash is required"]
    ELSE [ok |-> TRUE, url |-> <<"https://gateway.pinata.cloud/ipfs/", ipfsHash>>]

\* ------------------------------------------------------------------- state
VARIABLES
    now,                \* Date.now()
    apiKeys,            \* rows of the ApiKey table
    quoteCache,         \* the process-wide Map quoteHash -> {timestamp, data}
    quoteResp,          \* response of the latest GET /quote
    nativeBalance,      \* chain: native balance of each wallet
    tokenBalance,       \* chain: balanceOf(wallet, id)
    purchased,          \* chain: hasPurchased(wallet, id)
    pc,                 \* where each redemption request stands
    body,               \* its x-api-key header and JSON body
    wallet,             \* req.wallet, attached by the middleware
    balance,            \* const balance
    totalPrice,         \* let totalPrice
    datasetsToProcess,  \* const datasetsToProcess
    results,            \* const results
    txs,                \* purchase transactions the request has submitted
    calls,              \* kinds of external calls the request has made
    response,           \* what the request answered
    users,              \* ids of the rows of the User table
    usage,              \* number of rows of the ApiKeyUsage table
    issued,             \* number of API keys POST /api-keys has generated
    limiter,            \* createKeyLimiter's store: hits and reset time per IP
    asked,              \* issuance requests each owner sent in the current window
    keyResp,            \* the latest answer of the /api-keys routes and of the database
    authResp,           \* the latest outcome of authenticateApiKey
    env,                \* process.env: the value held under each name
    dotenvFile,         \* the value the .env file gives each name
    phase,              \* how far the process start got
    config,             \* the module-level constants read from the environment
    sealed,             \* the latest call of encryptData and what it returned
    opened,             \* the latest call of decryptData and what it returned
    requestsPerMinute,  \* the argument apiKeyRateLimit was built with
    requests,           \* its Map apiKey -> timestamps
    admits,             \* the instants at which it called next() for each key
    limitResp,          \* what it did with the latest request
    quoteCalls,         \* external calls the latest GET /quote made
    quoteReq,           \* the GET /quote in flight: where it stands, its locals
    orphans,            \* reads of answered GET /quote requests still running
    asOf,               \* the new Date() in the query of each request's middleware
    keyData,            \* what that query found, until the middleware has it
    ownership,          \* const [userBalance, hasPurchased] of the id at hand
    keyReq,             \* the /api-keys request in flight
    authReq             \* the request authenticateApiKey is at work on

chainVars == <<nativeBalance, tokenBalance, purchased>>
localVars == <<asOf, keyData, ownership>>
reqVars == <<pc, body, wallet, balance, totalPrice, datasetsToProcess,
             results, txs, calls, response, localVars>>
quoteVars == <<quoteResp, quoteCalls, quoteReq, orphans>>
adminVars == <<users, usage, issued, limiter, asked, keyResp, authResp,
               keyReq, authReq>>
bootVars == <<env, dotenvFile, phase, config>>
vaultVars == <<sealed, opened>>
rateVars == <<requestsPerMinute, requests, admits, limitResp>>
libVars == <<vaultVars, rateVars>>
vars == <<now, apiKeys, quoteCache, quoteVars, chainVars, reqVars, adminVars,
          bootVars, libVars>>

NoExpiry == -1              \* expiresAt IS NULL
NeverUsed == -1             \* lastUsed IS NULL
NoParam == "NoParam"        \* request without searchParam

\* One ApiKey row as POST /api-keys creates it.
ApiKeyRow(id, apiKey, userId, isActive, expiresAt, address, privateKey, iv) ==
    LET enc == encryptData(privateKey, iv) IN
    [id |-> id, key |-> hashApiKey(apiKey), userId |-> userId,
     isActive |-> isActive, expiresAt |-> expiresAt, lastUsed |-> NeverUsed,
     publicKey |-> address,
     encryptedPrivateKey |-> enc.encryptedData,
     keyPairIV |-> enc.iv,
     keyPairAuthTag |-> enc.authTag]

\* The rows the redemption model starts from: a sound key, a key whose
\* stored auth tag no longer verifies, and a deactivated key.
InitialApiKeys ==
    { ApiKeyRow("k1", "pk_a", "u1", TRUE, NoExpiry, "0xA", "privA", "iv1"),
      [ApiKeyRow("k2", "pk_b", "u2", TRUE, NoExpiry, "0xB", "privB", "iv2")
          EXCEPT !.keyPairAuthTag = <<"tag", "privB", "iv0", ENCRYPTION_KEY>>],
      ApiKeyRow("k3", "pk_x", "u1", FALSE, NoExpiry, "0xC", "privC", "iv3") }

\* Custodial wallet addresses the chain knows.
Wallets == {"0xA", "0xB"}
\* The native balance each wallet starts with: 0xA can pay for dataset 1 or
\* for dataset 2 twice, not for both 1 and 2; 0xB cannot pay for dataset 1.
InitBalance == [w \in Wallets |-> IF w = "0xA" THEN 12 ELSE 7]
\* A quoteHash no quote was ever issued under.
UnknownToken == "t0"

\* tokenIds a request body may carry: no id, a single id, two ids the
\* wallet 0xA cannot pay for together, the same id twice, two ids it can pay
\* for (the second without content locator), and three ids.
CandidateLists ==
    { <<>>, <<1>>, <<2>>, <<1, 2>>, <<2, 2>>, <<2, 3>>, <<2, 3, 2>> }
TokenIdLists == {l \in CandidateLists : Len(l) <= MaxIds}

\* The requests a client sends: every well-formed body under a key the
\* middleware may accept, with the token of the first quote, and one
\* request for each way of being refused before the quote check.
Bodies ==
    { [apiKey |-> k, isArray |-> TRUE, tokenIds |-> l, quoteHash |-> q] :
        k \in {"pk_a", "pk_b"}, l \in TokenIdLists, q \in {"t1"} }
    \cup { [apiKey |-> k, isArray |-> TRUE, tokenIds |-> <<1>>,
            quoteHash |-> "t1"] : k \in {NoKey, "pk_x"} }
    \cup { [apiKey |-> "pk_a", isArray |-> TRUE, tokenIds |-> <<1>>,
            quoteHash |-> UnknownToken] }
    \cup { [apiKey |-> "pk_a", isArray |-> FALSE, tokenIds |-> <<>>,
            quoteHash |-> "t1"],
           [apiKey |-> "pk_a", isArray |-> TRUE, tokenIds |-> <<1>>,
            quoteHash |-> NoHash] }

\* The rows of the User table at the start.
InitialUsers == {"u1", "u2"}
\* A bearer token naming no user, and a request without Authorization.
UnknownUser == "u9"
NoUser == "NoUser"
\* Network addresses issuance requests come from.
Ips == {"ip1", "ip2"}
\* createKeyLimiter's entry of an address it has not seen.
NoHits == [hits |-> 0, resetTime |-> 0]
NoKeyResp == [op |-> "", userId |-> NoUser, ip |-> "", id |-> "",
              status |-> 0, nth |-> 0]
NoAuthResp == [apiKey |-> NoKey, found |-> FALSE, status |-> 0]
\* No /api-keys request in flight, and none at authenticateApiKey.
NoKeyReq == [pc |-> "idle", op |-> "", authorization |-> NoUser, ip |-> "",
             id |-> "", validBody |-> FALSE, expiresAt |-> NoExpiry,
             nth |-> 0, ok |-> TRUE, found |-> FALSE]
NoAuthReq == [pc |-> "idle", apiKey |-> NoKey, asOf |-> 0, ok |-> TRUE,
              id |-> "", lastUsed |-> NeverUsed]
\* A middleware that has no answer of the database, a handler that has no
\* answer of the ledger, and no GET /quote in flight.
NoKeyData == [ok |-> TRUE, rows |-> {}]
NoOwnership == [userBalance |-> 0, hasPurchased |-> FALSE]
NoQuoteReq == [pc |-> "idle", apiKey |-> NoKey, searchParam |-> NoParam,
               asOf |-> 0, keyData |-> NoKeyData, tokenIds |-> <<>>,
               reads |-> <<>>]

\* What crypto.randomBytes(32), generateEthereumKeyPair() and the iv of
\* encryptData return at the successive issuances, with the cuid of the row.
NewKeys ==
    << [id |-> "k4", apiKey |-> "pk_1", address |-> "0xD",
        privateKey |-> "privD", iv |-> "iv4"] >>

\* The environment variables the sources read.
TwitterVars == {"TWITTER_USERNAME", "TWITTER_PASSWORD", "TWITTER_EMAIL"}
EnvVars ==
    TwitterVars \cup {"RPC_URL", "DATASET_CONTRACT_ADDRESS", "ENCRYPTION_KEY",
                      "PINATA_API_KEY", "PINATA_SECRET_KEY"}
ConfigVars == EnvVars \ TwitterVars
NoConfig == [RPC_URL |-> Undefined, DATASET_CONTRACT_ADDRESS |-> Undefined,
             ENCRYPTION_KEY |-> Undefined, PINATA_API_KEY |-> Undefined,
             PINATA_SECRET_KEY |-> Undefined]

\* A value of process.env or of the .env file: a name that is not held reads
\* as undefined, a name held with nothing after the `=` as the empty string.
\* The values the start environment sets and those the file sets differ.
EnvValue == "env"
FileValue == ".env"
Falsy(value) == value \in {Undefined, ""}

\* The environment, or the file, that sets the names of `set`, holds those
\* of `empty` with the empty string and lacks the others.
Holding(set, empty, value) ==
    [n \in EnvVars |-> IF n \in set THEN value
                       ELSE IF n \in empty THEN "" ELSE Undefined]

\* The module-level constants as the imports of index.ts evaluate them:
\* RPC_URL falls back to the public endpoint and ENCRYPTION_KEY to
\* crypto.randomBytes(32) when the variable is undefined or empty, the
\* others are taken as they are.
loadConfig(e) ==
    [RPC_URL |-> IF Falsy(e["RPC_URL"]) THEN "https://sepolia.base.org"
                 ELSE e["RPC_URL"],
     DATASET_CONTRACT_ADDRESS |-> e["DATASET_CONTRACT_ADDRESS"],
     ENCRYPTION_KEY |-> IF Falsy(e["ENCRYPTION_KEY"])
                        THEN "crypto.randomBytes(32)" ELSE ENCRYPTION_KEY,
     PINATA_API_KEY |-> e["PINATA_API_KEY"],
     PINATA_SECRET_KEY |-> e["PINATA_SECRET_KEY"]]

\* No call of encryptData or decryptData yet.
NoSealed == [data |-> "", iv |-> "",
             out |-> [encryptedData |-> NoBlob, iv |-> "", authTag |-> NoBlob]]
NoOpened == [encryptedData |-> NoBlob, iv |-> "", authTag |-> NoBlob,
             out |-> NoValue]
\* apiKeyRateLimit(requestsPerMinute: number = 60), and its window.
DefaultRate == 60
Minute == 60000
\* The limiter before its first request.
NoLimitResp == [apiKey |-> NoKey, status |-> 0, retryAfter |-> 0]
\* Math.ceil of NaN, which JSON sends as null.
NaN == -1

\* The state of a process that has served no request yet.
InitData ==
    /\ now = 0
    /\ apiKeys = InitialApiKeys
    /\ quoteCache = <<>>
    /\ quoteResp = [status |-> 0, quoteHash |-> NoHash]
    /\ quoteCalls = {}
    /\ quoteReq = NoQuoteReq
    /\ orphans = EmptyBag
    /\ nativeBalance = InitBalance
    /\ tokenBalance = [w \in Wallets |-> [d \in Datasets |->
                          IF w = "0xB" /\ d = 2 THEN 1 ELSE 0]]
    /\ purchased = [w \in Wallets |-> [d \in Datasets |-> FALSE]]
    /\ pc = [r \in Reqs |-> "idle"]
    /\ body = [r \in Reqs |-> NoBody]
    /\ wallet = [r \in Reqs |-> NoWallet]
    /\ balance = [r \in Reqs |-> 0]
    /\ totalPrice = [r \in Reqs |-> 0]
    /\ datasetsToProcess = [r \in Reqs |-> <<>>]
    /\ results = [r \in Reqs |-> <<>>]
    /\ txs = [r \in Reqs |-> <<>>]
    /\ calls = [r \in Reqs |-> {}]
    /\ response = [r \in Reqs |-> NoResponse]
    /\ asOf = [r \in Reqs |-> 0]
    /\ keyData = [r \in Reqs |-> NoKeyData]
    /\ ownership = [r \in Reqs |-> NoOwnership]
    /\ users = InitialUsers
    /\ usage = 0
    /\ issued = 0
    /\ limiter = [ip \in Ips |-> NoHits]
    /\ asked = [u \in InitialUsers |-> 0]
    /\ keyResp = NoKeyResp
    /\ authResp = NoAuthResp
    /\ keyReq = NoKeyReq
    /\ authReq = NoAuthReq
    /\ sealed = NoSealed
    /\ opened = NoOpened
    /\ requestsPerMinute = DefaultRate
    /\ requests = <<>>
    /\ admits = <<>>
    /\ limitResp = NoLimitResp

\* The process serves requests, started with every variable set in its
\* environment and without a .env file.
Init ==
    /\ InitData
    /\ env = Holding(EnvVars, {}, EnvValue)
    /\ dotenvFile = Holding({}, {}, FileValue)
    /\ phase = "listening"
    /\ config = loadConfig(Holding(EnvVars, {}, EnvValue))

\* ------------------------------------------------------------- middleware
\* findFirstActive with `gte` in place of `gt`.
findFirstActive_Inclusive(hashedKey, date) ==
    { row \in apiKeys : /\ row.key = hashedKey
                        /\ row.isActive
                        /\ (row.expiresAt = NoExpiry \/ row.expiresAt >= date) }

\* findFirstActive whose `where` leaves out the key: any active, unexpired
\* row matches.
findFirstActive_AnyKey(hashedKey, date) ==
    { row \in apiKeys : /\ row.isActive
                        /\ (row.expiresAt = NoExpiry \/ row.expiresAt > date) }

\* The rows matching `where: {key: hashedKey, isActive: true, OR:
\* [{expiresAt: null}, {expiresAt: {gt: date}}]}`, date being the
\* `new Date()` of the moment the query was built.
findFirstActive(hashedKey, date) ==
    { row \in apiKeys : /\ row.key = hashedKey
                        /\ row.isActive
                        /\ (row.expiresAt = NoExpiry \/ row.expiresAt > date) }

\* prisma.apiKey.findFirst as the database executes it: the matching rows
\* of that moment (none: null), or a failure that makes the await throw.
findFirst(hashedKey, date, dbOk) ==
    [ok |-> dbOk,
     rows |-> IF dbOk THEN findFirstActive(hashedKey, date) ELSE {}]

\* validateApiKeyMiddleware from the return of its findFirst on: 500 when
\* the lookup threw, 401 without a usable row, else req.wallet and next().
validateApiKeyMiddleware(found) ==
    IF ~found.ok
    THEN [status |-> 500, error |-> "Failed to validate API key",
          wallet |-> NoWallet]
    ELSE IF \/ found.rows = {}
            \/ \E row \in found.rows : \/ row.publicKey = NoValue
                                        \/ row.encryptedPrivateKey = NoBlob
                                        \/ row.keyPairIV = NoValue
                                        \/ row.keyPairAuthTag = NoBlob
    THEN [status |-> 401, error |-> "Invalid API key", wallet |-> NoWallet]
    ELSE LET row == CHOOSE row \in found.rows : TRUE IN
         [status |-> 0, error |-> "",
          wallet |-> [address |-> row.publicKey,
                      encryptedPrivateKey |-> row.encryptedPrivateKey,
                      keyPairIV |-> row.keyPairIV,
                      keyPairAuthTag |-> row.keyPairAuthTag]]

\* ------------------------------------------------------------ quote route
\* randomBytes that returns the same value at every call.
randomBytes_Reuse(used) == TokenOrder[1]

\* crypto.randomBytes(32): 256 random bits, so a value no earlier quote got;
\* which one is immaterial, and the model takes them in TokenOrder.
randomBytes(used) ==
    LET free == {i \in 1..Len(TokenOrder) : TokenOrder[i] \notin used} IN
    IF free = {} THEN NoHash
    ELSE TokenOrder[CHOOSE i \in free : \A j \in free : i <= j]

\* getTokensByTag(tag): the ids carrying the tag, in id order.
getTokensByTag(tag) ==
    SelectSeq(<<1, 2, 3>>, LAMBDA d : tag \in Catalog[d].tags)

\* The list `datasets` the handler builds from the metadata and the tags it
\* read for each id.
QuotedDatasets(tokenIds) ==
    [i \in 1..Len(tokenIds) |->
        [tokenId |-> tokenIds[i], name |-> Catalog[tokenIds[i]].name,
         description |-> Catalog[tokenIds[i]].description,
         price |-> Catalog[tokenIds[i]].currentPrice,
         tags |-> Catalog[tokenIds[i]].tags]]

\* The answer of a GET /quote that stored no quote; status 0: none yet.
QuoteAnswer(status) == [status |-> status, quoteHash |-> NoHash]

\* The reads still running once a newer GET /quote has arrived: none of them
\* is a read of the latest request any more.
Outdated(running) ==
    LET old(o) == [o EXCEPT !.latest = FALSE]
        copies(o) == IF o \in DOMAIN running THEN running[o] ELSE 0 IN
    [o \in {old(p) : p \in DOMAIN running} |->
        copies(o) + copies([o EXCEPT !.latest = TRUE])]

\* GET /quote arrives, after the answer to the one before it: the middleware
\* answers 401 without a key, else it asks the database for the key's row
\* as of new Date().  Reads of earlier requests may still be running.
Quote(apiKey, searchParam) ==
    /\ quoteReq.pc = "idle"
    /\ apiKey # NoKey => randomBytes(DOMAIN quoteCache) \in Tokens
    /\ orphans' = Outdated(orphans)
    /\ quoteReq' = IF apiKey = NoKey THEN NoQuoteReq
                   ELSE [NoQuoteReq EXCEPT !.pc = "findFirst",
                                           !.apiKey = apiKey,
                                           !.searchParam = searchParam,
                                           !.asOf = now]
    /\ quoteResp' = QuoteAnswer(IF apiKey = NoKey THEN 401 ELSE 0)
    /\ quoteCalls' = {}
    /\ UNCHANGED <<now, apiKeys, quoteCache, chainVars, reqVars, adminVars,
                   bootVars, libVars>>

\* The database executes the findFirst of the quote request's middleware.
QuoteFindKey(dbOk) ==
    /\ quoteReq.pc = "findFirst"
    /\ quoteReq' = [quoteReq EXCEPT
                       !.pc = "keyData",
                       !.keyData = findFirst(hashApiKey(quoteReq.apiKey),
                                             quoteReq.asOf, dbOk)]
    /\ UNCHANGED <<now, apiKeys, quoteCache, quoteResp, quoteCalls, orphans,
                   chainVars, reqVars, adminVars, bootVars, libVars>>

\* QuoteAdmit that asks the registry before it looks at searchParam.
QuoteAdmit_Eager ==
    LET auth == validateApiKeyMiddleware(quoteReq.keyData) IN
    /\ quoteReq.pc = "keyData"
    /\ UNCHANGED <<now, apiKeys, quoteCache, orphans, chainVars, reqVars,
                   adminVars, bootVars, libVars>>
    /\ IF auth.status # 0
       THEN /\ quoteReq' = NoQuoteReq
            /\ quoteResp' = QuoteAnswer(auth.status)
            /\ UNCHANGED quoteCalls
       ELSE /\ quoteCalls' = {"getTokensByTag"}
            /\ IF quoteReq.searchParam = NoParam
               THEN /\ quoteReq' = NoQuoteReq
                    /\ quoteResp' = QuoteAnswer(400)
               ELSE /\ quoteReq' = [quoteReq EXCEPT !.pc = "getTokensByTag",
                                                    !.asOf = 0,
                                                    !.keyData = NoKeyData]
                    /\ UNCHANGED quoteResp

\* findFirst returns to the middleware of the quote request, which answers
\* 401 or 500, or calls next(): the handler answers 400 without searchParam,
\* else it calls getTokensByTag.
QuoteAdmit ==
    LET auth == validateApiKeyMiddleware(quoteReq.keyData) IN
    /\ quoteReq.pc = "keyData"
    /\ UNCHANGED <<now, apiKeys, quoteCache, quoteCalls, orphans, chainVars,
                   reqVars, adminVars, bootVars, libVars>>
    /\ IF auth.status # 0
       THEN /\ quoteReq' = NoQuoteReq
            /\ quoteResp' = QuoteAnswer(auth.status)
       ELSE IF quoteReq.searchParam = NoParam
       THEN /\ quoteReq' = NoQuoteReq
            /\ quoteResp' = QuoteAnswer(400)
       ELSE /\ quoteReq' = [quoteReq EXCEPT !.pc = "getTokensByTag",
                                            !.asOf = 0,
                                            !.keyData = NoKeyData]
            /\ UNCHANGED quoteResp

\* getTokensByTag returns or throws: 500 on a throw, 404 for no id, else the
\* handler calls getDatasetMetadata for every id at once.
QuoteTokens(rpcOk) ==
    LET tokenIds == getTokensByTag(quoteReq.searchParam) IN
    /\ quoteReq.pc = "getTokensByTag"
    /\ quoteCalls' = quoteCalls \cup {"getTokensByTag"}
    /\ UNCHANGED <<now, apiKeys, quoteCache, orphans, chainVars, reqVars,
                   adminVars, bootVars, libVars>>
    /\ IF ~rpcOk
       THEN /\ quoteReq' = NoQuoteReq
            /\ quoteResp' = QuoteAnswer(500)
       ELSE IF Len(tokenIds) = 0
       THEN /\ quoteReq' = NoQuoteReq
            /\ quoteResp' = QuoteAnswer(404)
       ELSE /\ quoteReq' = [quoteReq EXCEPT
                               !.pc = "reads",
                               !.tokenIds = tokenIds,
                               !.reads = [i \in 1..Len(tokenIds) |->
                                             "getDatasetMetadata"]]
            /\ UNCHANGED quoteResp

\* One read of the i-th id returns or throws.  A throw rejects the
\* Promise.all and the handler answers 500, while the callbacks of the
\* other ids run on with nobody awaiting them.  getDatasetMetadata is followed
\* by the call of getTokenTags for the same id; when the last getTokenTags
\* has returned, the handler draws the token, stores the quote under it
\* with the Date.now() of that moment and answers.
QuoteRead(i, rpcOk) ==
    LET after == [quoteReq.reads EXCEPT ![i] =
                     IF @ = "getDatasetMetadata" THEN "getTokenTags"
                     ELSE "done"]
        others == {j \in 1..Len(quoteReq.reads) :
                      j # i /\ quoteReq.reads[j] # "done"}
        quoteHash == randomBytes(DOMAIN quoteCache) IN
    /\ quoteReq.pc = "reads"
    /\ i \in 1..Len(quoteReq.reads)
    /\ quoteReq.reads[i] # "done"
    /\ UNCHANGED <<now, apiKeys, chainVars, reqVars, adminVars, bootVars,
                   libVars>>
    /\ IF ~rpcOk
       THEN /\ quoteReq' = NoQuoteReq
            /\ quoteResp' = QuoteAnswer(500)
            /\ quoteCalls' = quoteCalls \cup {quoteReq.reads[i]}
            /\ orphans' = orphans (+)
                   SetToBag({[tokenId |-> quoteReq.tokenIds[j],
                              read |-> quoteReq.reads[j],
                              latest |-> TRUE] : j \in others})
            /\ UNCHANGED quoteCache
       ELSE IF \E j \in 1..Len(after) : after[j] # "done"
       THEN /\ quoteReq' = [quoteReq EXCEPT !.reads = after]
            /\ quoteCalls' = quoteCalls \cup {quoteReq.reads[i]}
            /\ UNCHANGED <<quoteResp, quoteCache, orphans>>
       ELSE /\ quoteHash \in Tokens
            /\ UNCHANGED orphans
            /\ quoteReq' = NoQuoteReq
            /\ quoteCache' = (quoteHash :>
                                 [timestamp |-> now,
                                  data |-> QuotedDatasets(quoteReq.tokenIds)])
                              @@ quoteCache
            /\ quoteCalls' = quoteCalls \cup {quoteReq.reads[i],
                                              "quoteCache.set"}
            /\ quoteResp' = [status |-> 200, quoteHash |-> quoteHash]

\* A read of a GET /quote that was answered 500 returns or throws.  The
\* callback of its id goes on: after getDatasetMetadata it calls getTokenTags,
\* after getTokenTags it returns a value nobody takes; a throw ends it.
QuoteOrphan(o, rpcOk) ==
    LET rest == orphans (-) SetToBag({o}) IN
    /\ BagIn(o, orphans)
    /\ orphans' = IF rpcOk /\ o.read = "getDatasetMetadata"
                  THEN rest (+) SetToBag({[o EXCEPT !.read = "getTokenTags"]})
                  ELSE rest
    /\ quoteCalls' = IF o.latest THEN quoteCalls \cup {o.read} ELSE quoteCalls
    /\ UNCHANGED <<now, apiKeys, quoteCache, quoteResp, quoteReq, chainVars,
                   reqVars, adminVars, bootVars, libVars>>

\* The clock advances.
Tick ==
    /\ \E t \in Instants : t > now /\ now' = t
    /\ UNCHANGED <<adminVars, bootVars, libVars, quoteVars, apiKeys, quoteCache, chainVars, reqVars>>


\* ------------------------------------------------------- redemption route
\* QuoteExpired without the age test: any retained entry passes.
QuoteExpired_NoAge(quoteHash) ==
    quoteHash \notin DOMAIN quoteCache

\* `!quote || Date.now() - quote.timestamp > 10000`
QuoteExpired(quoteHash) ==
    \/ quoteHash \notin DOMAIN quoteCache
    \/ now - quoteCache[quoteHash].timestamp > TTL

\* `!tokenIds || !Array.isArray(tokenIds) || !quoteHash`
InvalidBody(isArray, quoteHash) ==
    ~isArray \/ quoteHash = NoHash

\* How far a synchronous run of the handler gets: the await it stops at, or
\* the response it ends with, and the calls it made on the way.
Stop(at, made) ==
    [pc |-> at, response |-> NoResponse, calls |-> made]
End(status, message, datasets, made) ==
    [pc |-> "done", calls |-> made,
     response |-> [status |-> status, message |-> message,
                   datasets |-> datasets]]

\* The outer catch: any throw outside the inner try ends the request.
Catch(message) == End(500, message, <<>>, {})

\* ProcessLoop that goes on to the purchase after a failed decryption.
ProcessLoop_Skip(w, dtp, res) ==
    IF Len(res) >= Len(dtp) THEN End(200, "success", res, {})
    ELSE IF dtp[Len(res) + 1].owned THEN Stop("fetch", {})
    ELSE Stop("submit", {"decryptData"})

\* The top of `for (const dataset of datasetsToProcess)` once the datasets
\* before it have a result: respond after the last one; for an owned dataset
\* go to the fetch; for an unowned one decrypt the key (a throw reaches the
\* outer catch) and call writeContract.
ProcessLoop(w, dtp, res) ==
    IF Len(res) >= Len(dtp) THEN End(200, "success", res, {})
    ELSE IF dtp[Len(res) + 1].owned THEN Stop("fetch", {})
    ELSE IF decryptData(w.encryptedPrivateKey, w.keyPairIV, w.keyPairAuthTag)
              = DecryptError
    THEN End(500, "decrypt error", <<>>, {"decryptData"})
    ELSE Stop("submit", {"decryptData"})

\* Afford with the comparison turned around.
Afford_Inverted(w, total, bal, dtp) ==
    IF bal > total THEN End(400, "Insufficient balance", <<>>, {})
    ELSE ProcessLoop(w, dtp, <<>>)

\* `if (totalPrice > balance)`: 400, or on to the processing loop.
Afford(w, total, bal, dtp) ==
    IF total > bal THEN End(400, "Insufficient balance", <<>>, {})
    ELSE ProcessLoop(w, dtp, <<>>)

\* The request moves on as `out` says, having made the calls `made`; a
\* decryption on the way was one of req.wallet's private key.
Advance(r, out, made) ==
    /\ pc' = [pc EXCEPT ![r] = out.pc]
    /\ response' = [response EXCEPT ![r] = out.response]
    /\ calls' = [calls EXCEPT ![r] = @ \cup made \cup out.calls]
    /\ opened' = IF "decryptData" \in out.calls
                 THEN [encryptedData |-> wallet[r].encryptedPrivateKey,
                       iv |-> wallet[r].keyPairIV,
                       authTag |-> wallet[r].keyPairAuthTag,
                       out |-> decryptData(wallet[r].encryptedPrivateKey,
                                           wallet[r].keyPairIV,
                                           wallet[r].keyPairAuthTag)]
                 ELSE opened

\* POST /datasets arrives: the middleware answers 401 without a key, else it
\* asks the database for the key's row as of new Date().
Receive(r, apiKey, isArray, tokenIds, quoteHash) ==
    /\ pc[r] = "idle"
    /\ r > 1 => pc[r - 1] # "idle"
    /\ body' = [body EXCEPT ![r] = [apiKey |-> apiKey, isArray |-> isArray,
                                    tokenIds |-> tokenIds,
                                    quoteHash |-> quoteHash]]
    /\ asOf' = [asOf EXCEPT ![r] = IF apiKey = NoKey THEN @ ELSE now]
    /\ Advance(r, IF apiKey = NoKey
                  THEN End(401, "API key is required", <<>>, {})
                  ELSE Stop("findFirst", {}), {})
    /\ UNCHANGED <<adminVars, bootVars, sealed, rateVars, quoteVars, now, apiKeys,
                   quoteCache, chainVars, wallet, balance, totalPrice,
                   datasetsToProcess, results, txs, keyData, ownership>>

\* The database executes the findFirst of the request's middleware.
FindKey(r, dbOk) ==
    /\ pc[r] = "findFirst"
    /\ keyData' = [keyData EXCEPT ![r] =
                      findFirst(hashApiKey(body[r].apiKey), asOf[r], dbOk)]
    /\ Advance(r, Stop("keyData", {}), {})
    /\ UNCHANGED <<adminVars, bootVars, sealed, rateVars, quoteVars, now, apiKeys,
                   quoteCache, chainVars, body, wallet, balance, totalPrice,
                   datasetsToProcess, results, txs, asOf, ownership>>

\* Admit with the balance read moved in front of the quote check.
Admit_BalanceFirst(r) ==
    LET auth == validateApiKeyMiddleware(keyData[r]) IN
    /\ pc[r] = "keyData"
    /\ wallet' = [wallet EXCEPT ![r] = auth.wallet]
    /\ Advance(r, IF auth.status # 0
                  THEN End(auth.status, auth.error, <<>>, {})
                  ELSE IF InvalidBody(body[r].isArray, body[r].quoteHash)
                  THEN End(400, "Invalid request body", <<>>, {})
                  ELSE IF QuoteExpired(body[r].quoteHash)
                  THEN End(400, "Quote has expired", <<>>, {"getBalance"})
                  ELSE Stop("getBalance", {}), {})
    /\ asOf' = [asOf EXCEPT ![r] = 0]
    /\ keyData' = [keyData EXCEPT ![r] = NoKeyData]
    /\ UNCHANGED <<adminVars, bootVars, sealed, rateVars, quoteVars, now, apiKeys,
                   quoteCache, chainVars, body, balance, totalPrice,
                   datasetsToProcess, results, txs, ownership>>

\* Admit with a sliding expiry: an accepted redemption restamps the quote.
Admit_Sliding(r) ==
    LET auth == validateApiKeyMiddleware(keyData[r])
        accepted == /\ auth.status = 0
                    /\ ~InvalidBody(body[r].isArray, body[r].quoteHash)
                    /\ ~QuoteExpired(body[r].quoteHash) IN
    /\ pc[r] = "keyData"
    /\ wallet' = [wallet EXCEPT ![r] = auth.wallet]
    /\ Advance(r, IF auth.status # 0
                  THEN End(auth.status, auth.error, <<>>, {})
                  ELSE IF InvalidBody(body[r].isArray, body[r].quoteHash)
                  THEN End(400, "Invalid request body", <<>>, {})
                  ELSE IF QuoteExpired(body[r].quoteHash)
                  THEN End(400, "Quote has expired", <<>>, {})
                  ELSE Stop("getBalance", {}), {})
    /\ quoteCache' = IF accepted
                     THEN [quoteCache EXCEPT ![body[r].quoteHash].timestamp = now]
                     ELSE quoteCache
    /\ asOf' = [asOf EXCEPT ![r] = 0]
    /\ keyData' = [keyData EXCEPT ![r] = NoKeyData]
    /\ UNCHANGED <<adminVars, bootVars, sealed, rateVars, quoteVars, now, apiKeys,
                   chainVars, body, balance, totalPrice, datasetsToProcess,
                   results, txs, ownership>>

\* findFirst returns to the middleware, which answers 401 or 500, or
\* attaches req.wallet and calls next(): the handler validates the body and
\* checks the quote against the Date.now() of this moment, then calls
\* getBalance. The date and the rows of the query are not used again.
Admit(r) ==
    LET auth == validateApiKeyMiddleware(keyData[r]) IN
    /\ pc[r] = "keyData"
    /\ wallet' = [wallet EXCEPT ![r] = auth.wallet]
    /\ Advance(r, IF auth.status # 0
                  THEN End(auth.status, auth.error, <<>>, {})
                  ELSE IF InvalidBody(body[r].isArray, body[r].quoteHash)
                  THEN End(400, "Invalid request body", <<>>, {})
                  ELSE IF QuoteExpired(body[r].quoteHash)
                  THEN End(400, "Quote has expired", <<>>, {})
                  ELSE Stop("getBalance", {}), {})
    /\ asOf' = [asOf EXCEPT ![r] = 0]
    /\ keyData' = [keyData EXCEPT ![r] = NoKeyData]
    /\ UNCHANGED <<adminVars, bootVars, sealed, rateVars, quoteVars, now, apiKeys,
                   quoteCache, chainVars, body, balance, totalPrice,
                   datasetsToProcess, results, txs, ownership>>

\* `const balance = await publicClient.getBalance(...)` returns or throws.
GetBalance(r, rpcOk) ==
    LET bal == nativeBalance[wallet[r].address] IN
    /\ pc[r] = "getBalance"
    /\ IF rpcOk
       THEN /\ balance' = [balance EXCEPT ![r] = bal]
            /\ Advance(r, IF Len(body[r].tokenIds) = 0
                          THEN Afford(wallet[r], 0, bal, <<>>)
                          ELSE Stop("resolve", {}), {"getBalance"})
       ELSE /\ Advance(r, Catch("rpc error"), {"getBalance"})
            /\ UNCHANGED balance
    /\ UNCHANGED <<adminVars, bootVars, sealed, rateVars, quoteVars, localVars,
                   now, apiKeys, quoteCache, chainVars, body,
                   wallet, totalPrice, datasetsToProcess, results, txs>>

\* ResolvedEntry that looks at balanceOf only, not at hasPurchased.
ResolvedEntry_BalanceOnly(userBalance, hasPurchased, tokenId) ==
    LET metadata == Catalog[tokenId] IN
    IF userBalance > 0
    THEN [tokenId |-> tokenId, ipfsHash |-> metadata.ipfsHash,
          name |-> metadata.name, description |-> metadata.description,
          price |-> 0, owned |-> TRUE]
    ELSE [tokenId |-> tokenId, ipfsHash |-> metadata.ipfsHash,
          name |-> NoName, description |-> Undefined,
          price |-> metadata.currentPrice, owned |-> FALSE]

\* ResolvedEntry with `&&` in place of `||`.
ResolvedEntry_Both(userBalance, hasPurchased, tokenId) ==
    LET metadata == Catalog[tokenId] IN
    IF userBalance > 0 /\ hasPurchased
    THEN [tokenId |-> tokenId, ipfsHash |-> metadata.ipfsHash,
          name |-> metadata.name, description |-> metadata.description,
          price |-> 0, owned |-> TRUE]
    ELSE [tokenId |-> tokenId, ipfsHash |-> metadata.ipfsHash,
          name |-> NoName, description |-> Undefined,
          price |-> metadata.currentPrice, owned |-> FALSE]

\* The entry the ownership loop pushes for tokenId, from the two ownership
\* reads and the metadata.
ResolvedEntry(userBalance, hasPurchased, tokenId) ==
    LET metadata == Catalog[tokenId] IN
    IF userBalance > 0 \/ hasPurchased
    THEN [tokenId |-> tokenId, ipfsHash |-> metadata.ipfsHash,
          name |-> metadata.name, description |-> metadata.description,
          price |-> 0, owned |-> TRUE]
    ELSE [tokenId |-> tokenId, ipfsHash |-> metadata.ipfsHash,
          name |-> NoName, description |-> Undefined,
          price |-> metadata.currentPrice, owned |-> FALSE]

\* The id `for (const tokenId of tokenIds)` is at.
NextId(r) == body[r].tokenIds[Len(datasetsToProcess[r]) + 1]

\* `await Promise.all([balanceOf, hasPurchased])` for the next id returns
\* the two answers of the ledger, or throws; the handler then calls
\* getDatasetMetadata, in either branch of its `if`.
Resolve(r, rpcOk) ==
    LET address == wallet[r].address IN
    /\ pc[r] = "resolve"
    /\ IF rpcOk
       THEN /\ ownership' = [ownership EXCEPT ![r] =
                   [userBalance |-> tokenBalance[address][NextId(r)],
                    hasPurchased |-> purchased[address][NextId(r)]]]
            /\ Advance(r, Stop("metadata", {}), {"balanceOf", "hasPurchased"})
       ELSE /\ Advance(r, Catch("rpc error"), {"balanceOf", "hasPurchased"})
            /\ UNCHANGED ownership
    /\ UNCHANGED <<adminVars, bootVars, sealed, rateVars, quoteVars, now, apiKeys,
                   quoteCache, chainVars, body, wallet, balance, totalPrice,
                   datasetsToProcess, results, txs, asOf, keyData>>

\* `await getDatasetMetadata` for the id returns or throws: the entry is
\* pushed, the price of an unowned dataset added, and the loop goes on to
\* the ownership reads of the next id; after the last id the handler runs
\* on through the affordability check. The two answers of this iteration
\* are not used again.
ReadMetadata(r, rpcOk) ==
    LET entry == ResolvedEntry(ownership[r].userBalance,
                               ownership[r].hasPurchased, NextId(r))
        dtp == Append(datasetsToProcess[r], entry)
        total == IF entry.owned THEN totalPrice[r]
                 ELSE totalPrice[r] + entry.price IN
    /\ pc[r] = "metadata"
    /\ IF rpcOk
       THEN /\ datasetsToProcess' = [datasetsToProcess EXCEPT ![r] = dtp]
            /\ totalPrice' = [totalPrice EXCEPT ![r] = total]
            /\ Advance(r, IF Len(dtp) = Len(body[r].tokenIds)
                          THEN Afford(wallet[r], total, balance[r], dtp)
                          ELSE Stop("resolve", {}), {"getDatasetMetadata"})
       ELSE /\ Advance(r, Catch("rpc error"), {"getDatasetMetadata"})
            /\ UNCHANGED <<datasetsToProcess, totalPrice>>
    /\ ownership' = [ownership EXCEPT ![r] = NoOwnership]
    /\ UNCHANGED <<adminVars, bootVars, sealed, rateVars, quoteVars, now, apiKeys,
                   quoteCache, chainVars, body, wallet, balance, results,
                   txs, asOf, keyData>>

\* The dataset the processing loop is at: one result per processed dataset.
Current(r) == datasetsToProcess[r][Len(results[r]) + 1]

\* Submit that sends the purchases of all remaining unowned datasets at once.
Submit_Batch(r, rpcOk) ==
    LET dtp == datasetsToProcess[r]
        unowned(d) == ~d.owned
        rest == SelectSeq(SubSeq(dtp, Len(results[r]) + 1, Len(dtp)), unowned)
        sent == [k \in 1..Len(rest) |-> [tokenId |-> rest[k].tokenId,
                                         value |-> rest[k].price,
                                         status |-> "pending"]] IN
    /\ pc[r] = "submit"
    /\ IF rpcOk
       THEN /\ txs' = [txs EXCEPT ![r] = @ \o sent]
            /\ Advance(r, Stop("wait", {}), {"writeContract"})
       ELSE /\ Advance(r, Catch("rpc error"), {"writeContract"})
            /\ UNCHANGED txs
    /\ UNCHANGED <<adminVars, bootVars, sealed, rateVars, quoteVars, localVars,
                   now, apiKeys, quoteCache, chainVars, body,
                   wallet, balance, totalPrice, datasetsToProcess, results>>

\* Submit without the wait for the receipt: on to the fetch at once.
Submit_NoWait(r, rpcOk) ==
    LET dataset == Current(r) IN
    /\ pc[r] = "submit"
    /\ IF rpcOk
       THEN /\ txs' = [txs EXCEPT ![r] =
                         Append(@, [tokenId |-> dataset.tokenId,
                                    value |-> dataset.price,
                                    status |-> "pending"])]
            /\ Advance(r, Stop("fetch", {}), {"writeContract"})
       ELSE /\ Advance(r, Catch("rpc error"), {"writeContract"})
            /\ UNCHANGED txs
    /\ UNCHANGED <<adminVars, bootVars, sealed, rateVars, quoteVars, localVars,
                   now, apiKeys, quoteCache, chainVars, body,
                   wallet, balance, totalPrice, datasetsToProcess, results>>

\* Submit that attaches the aggregate price to each purchase.
Submit_Total(r, rpcOk) ==
    LET dataset == Current(r) IN
    /\ pc[r] = "submit"
    /\ IF rpcOk
       THEN /\ txs' = [txs EXCEPT ![r] =
                         Append(@, [tokenId |-> dataset.tokenId,
                                    value |-> totalPrice[r],
                                    status |-> "pending"])]
            /\ Advance(r, Stop("wait", {}), {"writeContract"})
       ELSE /\ Advance(r, Catch("rpc error"), {"writeContract"})
            /\ UNCHANGED txs
    /\ UNCHANGED <<adminVars, bootVars, sealed, rateVars, quoteVars, localVars,
                   now, apiKeys, quoteCache, chainVars, body,
                   wallet, balance, totalPrice, datasetsToProcess, results>>

\* `await walletClient.writeContract({purchaseDataset, value: price})`
\* returns the hash of the submitted transaction, or throws.
Submit(r, rpcOk) ==
    LET dataset == Current(r) IN
    /\ pc[r] = "submit"
    /\ IF rpcOk
       THEN /\ txs' = [txs EXCEPT ![r] =
                         Append(@, [tokenId |-> dataset.tokenId,
                                    value |-> dataset.price,
                                    status |-> "pending"])]
            /\ Advance(r, Stop("wait", {}), {"writeContract"})
       ELSE /\ Advance(r, Catch("rpc error"), {"writeContract"})
            /\ UNCHANGED txs
    /\ UNCHANGED <<adminVars, bootVars, sealed, rateVars, quoteVars, localVars,
                   now, apiKeys, quoteCache, chainVars, body,
                   wallet, balance, totalPrice, datasetsToProcess, results>>

\* Confirm that swallows a failed wait and goes on to the fetch.
Confirm_Swallow(r, rpcOk) ==
    LET tx == txs[r][Len(txs[r])]
        address == wallet[r].address
        outcome == IF nativeBalance[address] >= tx.value THEN "success"
                   ELSE "reverted" IN
    /\ pc[r] = "wait"
    /\ Advance(r, Stop("fetch", {}), {"waitForTransactionReceipt"})
    /\ IF ~rpcOk
       THEN UNCHANGED <<txs, chainVars>>
       ELSE /\ txs' = [txs EXCEPT ![r][Len(txs[r])].status = outcome]
            /\ UNCHANGED tokenBalance
            /\ IF outcome = "success"
               THEN /\ nativeBalance' =
                         [nativeBalance EXCEPT ![address] = @ - tx.value]
                    /\ purchased' =
                         [purchased EXCEPT ![address][tx.tokenId] = TRUE]
               ELSE UNCHANGED <<nativeBalance, purchased>>
    /\ UNCHANGED <<adminVars, bootVars, sealed, rateVars, quoteVars, localVars,
                   now, apiKeys, quoteCache, body, wallet,
                   balance, totalPrice, datasetsToProcess, results>>

\* `await publicClient.waitForTransactionReceipt({ hash })`: the receipt of
\* the mined transaction (its status is not looked at), or a thrown error.
\* A transaction the wallet can pay for succeeds: it moves its value and
\* records the purchase; one it cannot pay for is mined as reverted.
Confirm(r, rpcOk) ==
    LET tx == txs[r][Len(txs[r])]
        address == wallet[r].address
        outcome == IF nativeBalance[address] >= tx.value THEN "success"
                   ELSE "reverted" IN
    /\ pc[r] = "wait"
    /\ IF ~rpcOk
       THEN /\ Advance(r, Catch("rpc error"), {"waitForTransactionReceipt"})
            /\ UNCHANGED <<txs, chainVars>>
       ELSE /\ txs' = [txs EXCEPT ![r][Len(txs[r])].status = outcome]
            /\ Advance(r, Stop("fetch", {}), {"waitForTransactionReceipt"})
            /\ UNCHANGED tokenBalance
            /\ IF outcome = "success"
               THEN /\ nativeBalance' =
                         [nativeBalance EXCEPT ![address] = @ - tx.value]
                    /\ purchased' =
                         [purchased EXCEPT ![address][tx.tokenId] = TRUE]
               ELSE UNCHANGED <<nativeBalance, purchased>>
    /\ UNCHANGED <<adminVars, bootVars, sealed, rateVars, quoteVars, localVars,
                   now, apiKeys, quoteCache, body, wallet,
                   balance, totalPrice, datasetsToProcess, results>>

\* The payload kind chosen from the content-type header, as it is, and from
\* dataset.name in lower case (no name: no match).
PayloadKind(contentType, name) ==
    LET ct(frag) == includes(contentType, frag)
        nm(frag) == includes(toLowerCase(name), frag) IN
    IF ct("application/json") THEN "json"
    ELSE IF ct("text/csv") \/ nm(".csv") THEN "csv"
    ELSE IF \/ ct("application/vnd.openxmlformats-officedocument.spreadsheetml.sheet")
            \/ ct("application/vnd.ms-excel")
            \/ nm(".xlsx") THEN "excel"
    ELSE "binary"

\* DataEntry with the flag the wrong way round.
DataEntry_Flag(dataset) ==
    [tokenId |-> dataset.tokenId, kind |-> "data",
     data |-> PayloadKind(Catalog[dataset.tokenId].contentType, dataset.name),
     purchased |-> dataset.owned,
     name |-> dataset.name, description |-> dataset.description]

\* The entry the inner try pushes for a dataset whose payload arrived.
DataEntry(dataset) ==
    [tokenId |-> dataset.tokenId, kind |-> "data",
     data |-> PayloadKind(Catalog[dataset.tokenId].contentType, dataset.name),
     purchased |-> ~dataset.owned,
     name |-> dataset.name, description |-> dataset.description]

\* The entry the inner catch pushes.
ErrorEntry(dataset) ==
    [tokenId |-> dataset.tokenId, kind |-> "error", data |-> Undefined,
     purchased |-> ~dataset.owned,
     name |-> NoName, description |-> Undefined]

\* Fetch without the inner catch: a failed fetch reaches the outer catch.
Fetch_Abort(r, netOk) ==
    LET dataset == Current(r)
        url == getFromPinata(dataset.ipfsHash)
        made == IF url.ok THEN {"getFromPinata", "fetch"}
                ELSE {"getFromPinata"} IN
    /\ pc[r] = "fetch"
    /\ Advance(r, IF url.ok /\ netOk THEN Stop("body", {})
                  ELSE Catch("fetch error"), made)
    /\ UNCHANGED <<adminVars, bootVars, sealed, rateVars, quoteVars, localVars, now,
                   apiKeys, quoteCache, chainVars, body, wallet, balance,
                   totalPrice, datasetsToProcess, results, txs>>

\* The inner try up to the response: getFromPinata, then `await
\* fetch(downloadUrl)` returns the response with its headers, or one of the
\* two throws; a throw is caught and pushed as the dataset's error entry,
\* and the handler runs on to the next dataset, or to the response.
Fetch(r, netOk) ==
    LET dataset == Current(r)
        url == getFromPinata(dataset.ipfsHash)
        res == Append(results[r], ErrorEntry(dataset))
        made == IF url.ok THEN {"getFromPinata", "fetch"}
                ELSE {"getFromPinata"} IN
    /\ pc[r] = "fetch"
    /\ IF url.ok /\ netOk
       THEN /\ Advance(r, Stop("body", {}), made)
            /\ UNCHANGED results
       ELSE /\ results' = [results EXCEPT ![r] = res]
            /\ Advance(r, ProcessLoop(wallet[r], datasetsToProcess[r], res),
                       made)
    /\ UNCHANGED <<adminVars, bootVars, sealed, rateVars, quoteVars, localVars, now,
                   apiKeys, quoteCache, chainVars, body, wallet, balance,
                   totalPrice, datasetsToProcess, txs>>

\* `await response.json()`, `.text()` or `.arrayBuffer()` returns the
\* payload or throws: the data entry, or from the inner catch the error
\* entry, is pushed, and the handler runs on to the next dataset, or to the
\* response.
ReadBody(r, netOk) ==
    LET dataset == Current(r)
        entry == IF netOk THEN DataEntry(dataset) ELSE ErrorEntry(dataset)
        res == Append(results[r], entry) IN
    /\ pc[r] = "body"
    /\ results' = [results EXCEPT ![r] = res]
    /\ Advance(r, ProcessLoop(wallet[r], datasetsToProcess[r], res), {})
    /\ UNCHANGED <<adminVars, bootVars, sealed, rateVars, quoteVars, localVars, now,
                   apiKeys, quoteCache, chainVars, body, wallet, balance,
                   totalPrice, datasetsToProcess, txs>>

\* ---------------------------------------------------------- API key routes
\* express-rate-limit with its default key, the address of the request: the
\* entry after one more hit, in a window fixed by the first hit.
Hit(ip) ==
    LET entry == limiter[ip] IN
    IF entry.hits = 0 \/ now >= entry.resetTime
    THEN [hits |-> 1, resetTime |-> now + WindowMs]
    ELSE [hits |-> entry.hits + 1, resetTime |-> entry.resetTime]

\* The answer of an /api-keys route, or of the database to a deletion of a
\* user; for an issuance request that reached the limiter, nth says the
\* how-manieth of its owner's window it was.
KeyAnswer(op, userId, ip, id, status, nth) ==
    [op |-> op, userId |-> userId, ip |-> ip, id |-> id, status |-> status,
     nth |-> nth]

\* The /api-keys request in flight answers and is over.
Reply(id, status) ==
    /\ keyResp' = KeyAnswer(keyReq.op, keyReq.authorization, keyReq.ip, id,
                            status, keyReq.nth)
    /\ keyReq' = NoKeyReq

\* POST /api-keys arrives, after the answer to the /api-keys request before
\* it: authenticateUser answers 401 without a bearer token, else it asks
\* the database for the user.
CreateKey(authorization, ip, validBody, expiresAt) ==
    /\ keyReq.pc = "idle"
    /\ SetSum(asked, DOMAIN asked) < MaxAsk
    /\ validBody => issued < Len(NewKeys)
    /\ IF authorization = NoUser
       THEN /\ keyResp' = KeyAnswer("create", authorization, ip, "", 401, 0)
            /\ UNCHANGED keyReq
       ELSE /\ keyReq' = [NoKeyReq EXCEPT !.pc = "findUnique",
                                          !.op = "create",
                                          !.authorization = authorization,
                                          !.ip = ip,
                                          !.validBody = validBody,
                                          !.expiresAt = expiresAt]
            /\ UNCHANGED keyResp
    /\ UNCHANGED <<now, apiKeys, quoteCache, quoteVars, chainVars, reqVars,
                   bootVars, libVars, users, usage, issued, limiter, asked,
                   authResp, authReq>>

\* DELETE /api-keys/:id arrives: authenticateUser as for POST.
DeleteKey(authorization, id) ==
    /\ keyReq.pc = "idle"
    /\ IF authorization = NoUser
       THEN /\ keyResp' = KeyAnswer("delete", authorization, "", id, 401, 0)
            /\ UNCHANGED keyReq
       ELSE /\ keyReq' = [NoKeyReq EXCEPT !.pc = "findUnique",
                                          !.op = "delete",
                                          !.authorization = authorization,
                                          !.id = id]
            /\ UNCHANGED keyResp
    /\ UNCHANGED <<now, apiKeys, quoteCache, quoteVars, chainVars, reqVars,
                   bootVars, libVars, users, usage, issued, limiter, asked,
                   authResp, authReq>>

\* The database executes prisma.user.findUnique({where: {id: token}}), or
\* fails to.
FindUser(dbOk) ==
    /\ keyReq.pc = "findUnique"
    /\ keyReq' = [keyReq EXCEPT
                     !.pc = "user",
                     !.ok = dbOk,
                     !.found = dbOk /\ keyReq.authorization \in users]
    /\ UNCHANGED <<now, apiKeys, quoteCache, quoteVars, chainVars, reqVars,
                   bootVars, libVars, users, usage, issued, limiter, asked,
                   keyResp, authResp, authReq>>

\* findUnique returns to authenticateUser: 401 when it threw and for no
\* user, else next(): the limiter of POST, or the handler of DELETE, which
\* calls findFirst.
authenticateUser ==
    /\ keyReq.pc = "user"
    /\ IF ~keyReq.ok \/ ~keyReq.found
       THEN Reply(keyReq.id, 401)
       ELSE /\ keyReq' = [keyReq EXCEPT
                             !.pc = IF keyReq.op = "create" THEN "limiter"
                                    ELSE "findFirst",
                             !.ok = TRUE, !.found = FALSE]
            /\ UNCHANGED keyResp
    /\ UNCHANGED <<now, apiKeys, quoteCache, quoteVars, chainVars, reqVars,
                   bootVars, libVars, users, usage, issued, limiter, asked,
                   authResp, authReq>>

\* createKeyLimiter has counted the request: 429 beyond `max`, else the
\* handler: 400 for a body the schema refuses, else a fresh key and key
\* pair, the private key encrypted, and the call of prisma.apiKey.create.
createKeyLimiter ==
    LET hit == Hit(keyReq.ip)
        nth == asked[keyReq.authorization] + 1
        new == NewKeys[issued + 1]
        counted == [keyReq EXCEPT !.nth = nth] IN
    /\ keyReq.pc = "limiter"
    /\ asked' = [asked EXCEPT ![keyReq.authorization] = nth]
    /\ limiter' = [limiter EXCEPT ![keyReq.ip] = hit]
    /\ IF hit.hits > MaxIssue \/ ~keyReq.validBody
       THEN /\ keyResp' = KeyAnswer("create", keyReq.authorization, keyReq.ip,
                                    "", IF hit.hits > MaxIssue THEN 429
                                        ELSE 400, nth)
            /\ keyReq' = NoKeyReq
            /\ UNCHANGED <<issued, sealed>>
       ELSE /\ issued' = issued + 1
            /\ sealed' = [data |-> new.privateKey, iv |-> new.iv,
                          out |-> encryptData(new.privateKey, new.iv)]
            /\ keyReq' = [counted EXCEPT !.pc = "create"]
            /\ UNCHANGED keyResp
    /\ UNCHANGED <<now, apiKeys, quoteCache, quoteVars, chainVars, reqVars,
                   bootVars, opened, rateVars, users, usage, authResp,
                   authReq>>

\* The database executes prisma.apiKey.create: the row is inserted, unless
\* the database fails or the foreign key ApiKey_userId_fkey finds no user.
InsertKey(dbOk) ==
    LET new == NewKeys[issued]
        row == ApiKeyRow(new.id, new.apiKey, keyReq.authorization, TRUE,
                         keyReq.expiresAt, new.address, new.privateKey, new.iv)
        ok == dbOk /\ keyReq.authorization \in users IN
    /\ keyReq.pc = "create"
    /\ apiKeys' = IF ok THEN apiKeys \cup {row} ELSE apiKeys
    /\ keyReq' = [keyReq EXCEPT !.pc = "created", !.ok = ok]
    /\ UNCHANGED <<now, quoteCache, quoteVars, chainVars, reqVars, bootVars,
                   libVars, users, usage, issued, limiter, asked, keyResp,
                   authResp, authReq>>

\* prisma.apiKey.create returns, 201 with the row, or throws, and the catch
\* of the handler answers 400.
KeyCreated ==
    /\ keyReq.pc = "created"
    /\ IF keyReq.ok THEN Reply(NewKeys[issued].id, 201) ELSE Reply("", 400)
    /\ UNCHANGED <<now, apiKeys, quoteCache, quoteVars, chainVars, reqVars,
                   bootVars, libVars, users, usage, issued, limiter, asked,
                   authResp, authReq>>

\* FindOwnKey that looks the row up by id alone.
FindOwnKey_AnyOwner(dbOk) ==
    /\ keyReq.pc = "findFirst"
    /\ keyReq' = [keyReq EXCEPT
                     !.pc = "key",
                     !.ok = dbOk,
                     !.found = dbOk /\ \E row \in apiKeys : row.id = keyReq.id]
    /\ UNCHANGED <<now, apiKeys, quoteCache, quoteVars, chainVars, reqVars,
                   bootVars, libVars, users, usage, issued, limiter, asked,
                   keyResp, authResp, authReq>>

\* The database executes prisma.apiKey.findFirst({where: {id, userId}}).
FindOwnKey(dbOk) ==
    /\ keyReq.pc = "findFirst"
    /\ keyReq' = [keyReq EXCEPT
                     !.pc = "key",
                     !.ok = dbOk,
                     !.found = dbOk /\ \E row \in apiKeys :
                                           /\ row.id = keyReq.id
                                           /\ row.userId = keyReq.authorization]
    /\ UNCHANGED <<now, apiKeys, quoteCache, quoteVars, chainVars, reqVars,
                   bootVars, libVars, users, usage, issued, limiter, asked,
                   keyResp, authResp, authReq>>

\* findFirst returns to the handler of DELETE: 500 when it threw, 404 for
\* no row, else the handler calls prisma.apiKey.delete({where: {id}}).
OwnKeyFound ==
    /\ keyReq.pc = "key"
    /\ IF ~keyReq.ok THEN Reply(keyReq.id, 500)
       ELSE IF ~keyReq.found THEN Reply(keyReq.id, 404)
       ELSE /\ keyReq' = [keyReq EXCEPT !.pc = "delete", !.found = FALSE]
            /\ UNCHANGED keyResp
    /\ UNCHANGED <<now, apiKeys, quoteCache, quoteVars, chainVars, reqVars,
                   bootVars, libVars, users, usage, issued, limiter, asked,
                   authResp, authReq>>

\* RemoveKey that deactivates the row and keeps it.
RemoveKey_Soft(dbOk) ==
    LET ok == dbOk /\ \E row \in apiKeys : row.id = keyReq.id IN
    /\ keyReq.pc = "delete"
    /\ apiKeys' = IF ok
                  THEN {IF row.id = keyReq.id
                        THEN [row EXCEPT !.isActive = FALSE]
                        ELSE row : row \in apiKeys}
                  ELSE apiKeys
    /\ keyReq' = [keyReq EXCEPT !.pc = "deleted", !.ok = ok]
    /\ UNCHANGED <<now, quoteCache, quoteVars, chainVars, reqVars, bootVars,
                   libVars, users, usage, issued, limiter, asked, keyResp,
                   authResp, authReq>>

\* The database executes prisma.apiKey.delete: the row with the id is
\* removed; the call throws when the database fails or no row has the id.
RemoveKey(dbOk) ==
    LET ok == dbOk /\ \E row \in apiKeys : row.id = keyReq.id IN
    /\ keyReq.pc = "delete"
    /\ apiKeys' = IF ok THEN {row \in apiKeys : row.id # keyReq.id}
                  ELSE apiKeys
    /\ keyReq' = [keyReq EXCEPT !.pc = "deleted", !.ok = ok]
    /\ UNCHANGED <<now, quoteCache, quoteVars, chainVars, reqVars, bootVars,
                   libVars, users, usage, issued, limiter, asked, keyResp,
                   authResp, authReq>>

\* prisma.apiKey.delete returns, 200, or throws, and the catch of the
\* handler answers 500.
KeyDeleted ==
    /\ keyReq.pc = "deleted"
    /\ Reply(keyReq.id, IF keyReq.ok THEN 200 ELSE 500)
    /\ UNCHANGED <<now, apiKeys, quoteCache, quoteVars, chainVars, reqVars,
                   bootVars, libVars, users, usage, issued, limiter, asked,
                   authResp, authReq>>

\* What authenticateApiKey did with the key presented.
AuthAnswer(found, status) ==
    [apiKey |-> authReq.apiKey, found |-> found, status |-> status]

\* A request reaches authenticateApiKey, after the one before it is through:
\* 401 without a key, else validateApiKey asks the database for the key's
\* row as of new Date().
Authenticate(apiKey) ==
    /\ authReq.pc = "idle"
    /\ usage < MaxUsage
    /\ IF apiKey = NoKey
       THEN /\ authResp' = [apiKey |-> apiKey, found |-> FALSE, status |-> 401]
            /\ UNCHANGED authReq
       ELSE /\ authReq' = [NoAuthReq EXCEPT !.pc = "findFirst",
                                            !.apiKey = apiKey,
                                            !.asOf = now]
            /\ UNCHANGED authResp
    /\ UNCHANGED <<now, apiKeys, quoteCache, quoteVars, chainVars, reqVars,
                   bootVars, libVars, users, usage, issued, limiter, asked,
                   keyResp, keyReq>>

\* The database executes the findFirst of validateApiKey.
LookupKey(dbOk) ==
    LET got == findFirst(hashApiKey(authReq.apiKey), authReq.asOf, dbOk) IN
    /\ authReq.pc = "findFirst"
    /\ authReq' = [authReq EXCEPT
                      !.pc = "key",
                      !.asOf = 0,
                      !.ok = dbOk,
                      !.id = IF got.rows = {} THEN ""
                             ELSE (CHOOSE row \in got.rows : TRUE).id]
    /\ UNCHANGED <<now, apiKeys, quoteCache, quoteVars, chainVars, reqVars,
                   bootVars, libVars, users, usage, issued, limiter, asked,
                   keyResp, authResp, keyReq>>

\* findFirst returns to validateApiKey: false (401) when it threw and for
\* no row, else the call of prisma.apiKey.update with lastUsed: new Date().
validateApiKey ==
    /\ authReq.pc = "key"
    /\ IF ~authReq.ok \/ authReq.id = ""
       THEN /\ authResp' = AuthAnswer(FALSE, 401)
            /\ authReq' = NoAuthReq
       ELSE /\ authReq' = [authReq EXCEPT !.pc = "update", !.lastUsed = now]
            /\ UNCHANGED authResp
    /\ UNCHANGED <<now, apiKeys, quoteCache, quoteVars, chainVars, reqVars,
                   bootVars, libVars, users, usage, issued, limiter, asked,
                   keyResp, keyReq>>

\* The database executes the update of lastUsed; the call throws when the
\* database fails or the row is gone.
UpdateLastUsed(updateOk) ==
    LET ok == updateOk /\ \E row \in apiKeys : row.id = authReq.id IN
    /\ authReq.pc = "update"
    /\ apiKeys' = IF ok
                  THEN {IF row.id = authReq.id
                        THEN [row EXCEPT !.lastUsed = authReq.lastUsed]
                        ELSE row : row \in apiKeys}
                  ELSE apiKeys
    /\ authReq' = [authReq EXCEPT !.pc = "updated", !.ok = ok,
                                  !.lastUsed = NeverUsed]
    /\ UNCHANGED <<now, quoteCache, quoteVars, chainVars, reqVars, bootVars,
                   libVars, users, usage, issued, limiter, asked, keyResp,
                   authResp, keyReq>>

\* The update returns to validateApiKey: its catch returns false (401) when
\* it threw, else the call of prisma.apiKeyUsage.create.
LastUsedUpdated ==
    /\ authReq.pc = "updated"
    /\ IF ~authReq.ok
       THEN /\ authResp' = AuthAnswer(TRUE, 401)
            /\ authReq' = NoAuthReq
       ELSE /\ authReq' = [authReq EXCEPT !.pc = "usage"]
            /\ UNCHANGED authResp
    /\ UNCHANGED <<now, apiKeys, quoteCache, quoteVars, chainVars, reqVars,
                   bootVars, libVars, users, usage, issued, limiter, asked,
                   keyResp, keyReq>>

\* The database executes prisma.apiKeyUsage.create, or fails to.
LogUsage(usageOk) ==
    /\ authReq.pc = "usage"
    /\ usage' = IF usageOk THEN usage + 1 ELSE usage
    /\ authReq' = [authReq EXCEPT !.pc = "logged", !.ok = usageOk]
    /\ UNCHANGED <<now, apiKeys, quoteCache, quoteVars, chainVars, reqVars,
                   bootVars, libVars, users, issued, limiter, asked, keyResp,
                   authResp, keyReq>>

\* The insert returns to validateApiKey, which returns true, or false from
\* its catch; authenticateApiKey calls next() or answers 401.
authenticateApiKey ==
    /\ authReq.pc = "logged"
    /\ authResp' = AuthAnswer(TRUE, IF authReq.ok THEN 0 ELSE 401)
    /\ authReq' = NoAuthReq
    /\ UNCHANGED <<now, apiKeys, quoteCache, quoteVars, chainVars, reqVars,
                   bootVars, libVars, users, usage, issued, limiter, asked,
                   keyResp, keyReq>>

\* The referential actions the repository states for ApiKey.userId: the
\* migration creates the foreign key ON DELETE RESTRICT, the Prisma schema
\* declares onDelete: Cascade.
OnDelete == {"RESTRICT", "Cascade"}

\* DELETE FROM "User" WHERE id = userId, under the referential action the
\* database was built with.
DeleteUser(userId, onDelete) ==
    LET keys == {row \in apiKeys : row.userId = userId} IN
    /\ userId \in users
    /\ UNCHANGED <<now, quoteCache, quoteVars, chainVars, reqVars, bootVars,
                   libVars, usage, issued, limiter, asked, authResp, keyReq,
                   authReq>>
    /\ IF onDelete = "RESTRICT" /\ keys # {}
       THEN /\ keyResp' = KeyAnswer("deleteUser", userId, "", "", 500, 0)
            /\ UNCHANGED <<users, apiKeys>>
       ELSE /\ users' = users \ {userId}
            /\ apiKeys' = apiKeys \ keys
            /\ keyResp' = KeyAnswer("deleteUser", userId, "", "", 200, 0)

\* A full limiter window goes by.
Elapse ==
    /\ now < WindowMs
    /\ now' = now + WindowMs
    /\ asked' = [u \in DOMAIN asked |-> 0]
    /\ UNCHANGED <<apiKeys, quoteCache, quoteVars, chainVars, reqVars,
                   bootVars, libVars, users, usage, issued, limiter, keyResp,
                   authResp, keyReq, authReq>>

\* ------------------------------------------------------------ process start
\* The imports of index.ts run the module-level code of the routes and
\* utilities, which reads process.env as the process was started with it:
\* the .env file has not been read yet.
LoadModules ==
    /\ phase = "loading"
    /\ config' = loadConfig(env)
    /\ phase' = "loaded"
    /\ UNCHANGED <<now, apiKeys, quoteCache, chainVars, reqVars,
                   adminVars, libVars, quoteVars, env, dotenvFile>>

\* dotenv.config(), after the imports: a name process.env does not hold
\* takes the value the .env file gives it; a name it holds, with the empty
\* string too, keeps its value.  The constants the modules
\* evaluated stay as they are.
dotenvConfig ==
    /\ phase = "loaded"
    /\ env' = [n \in EnvVars |->
                  IF env[n] = Undefined THEN dotenvFile[n] ELSE env[n]]
    /\ phase' = "configured"
    /\ UNCHANGED <<now, apiKeys, quoteCache, chainVars, reqVars,
                   adminVars, libVars, quoteVars, dotenvFile, config>>

\* validateEnv: the names it requires whose value is undefined or empty
\* (`!value`).
validateEnv(e) == {n \in TwitterVars : Falsy(e[n])}

\* initializeTwitter: validateEnv and the scraper login; a throw of either
\* ends the process with exit code 1.
InitializeTwitter(loginOk) ==
    /\ phase = "configured"
    /\ phase' = IF validateEnv(env) = {} /\ loginOk THEN "ready" ELSE "exited"
    /\ UNCHANGED <<now, apiKeys, quoteCache, chainVars, reqVars,
                   adminVars, libVars, quoteVars, env, dotenvFile, config>>

\* app.listen: the process serves requests.
Listen ==
    /\ phase = "ready"
    /\ phase' = "listening"
    /\ UNCHANGED <<now, apiKeys, quoteCache, chainVars, reqVars,
                   adminVars, libVars, quoteVars, env, dotenvFile, config>>

\* ----------------------------------------------------------------- chain
\* Someone transfers native currency to a custodial wallet that holds no
\* more than it started with.
Fund(address, amount) ==
    /\ nativeBalance[address] <= InitBalance[address]
    /\ nativeBalance' = [nativeBalance EXCEPT ![address] = @ + amount]
    /\ UNCHANGED <<now, apiKeys, quoteCache, tokenBalance,
                   purchased, reqVars, adminVars, bootVars, libVars,
                   quoteVars>>

\* ---------------------------------------------------------- rate limiter
\* apiKeyRateLimit(n) is called: a limiter with an empty Map.
Build(n) ==
    /\ requests = <<>>
    /\ requestsPerMinute' = n
    /\ requests' = <<>>
    /\ admits' = <<>>
    /\ limitResp' = NoLimitResp
    /\ UNCHANGED <<now, apiKeys, quoteCache, chainVars, reqVars,
                   adminVars, bootVars, vaultVars, quoteVars>>

\* `keyRequests.filter((time) => now - time < minute)`
recentRequests(keyRequests) ==
    SelectSeq(keyRequests, LAMBDA time : now - time < Minute)

\* `Math.ceil((recentRequests[0] + minute - now) / 1000)`; recentRequests[0]
\* of an empty list is undefined and the result NaN.
retryAfter(recent) ==
    IF recent = <<>> THEN NaN
    ELSE (recent[1] + Minute - now + 999) \div 1000

\* What the limiter answers and stores for a request; status 0 is next().
Pass(apiKey, stored) ==
    /\ limitResp' = [apiKey |-> apiKey, status |-> 0, retryAfter |-> 0]
    /\ SetSum([k \in DOMAIN admits |-> Len(admits[k])], DOMAIN admits) < MaxHits
    /\ requests' = (apiKey :> stored) @@ requests
    /\ admits' = (apiKey :> IF apiKey \in DOMAIN admits
                            THEN Append(admits[apiKey], now)
                            ELSE <<now>>) @@ admits

\* The middleware apiKeyRateLimit returns, for one request.
Limit(apiKey) ==
    /\ UNCHANGED <<now, apiKeys, quoteCache, chainVars, reqVars,
                   adminVars, bootVars, vaultVars, quoteVars,
                   requestsPerMinute>>
    /\ IF apiKey = NoKey
       THEN /\ limitResp' = [apiKey |-> apiKey, status |-> 0, retryAfter |-> 0]
            /\ UNCHANGED <<requests, admits>>
       ELSE IF apiKey \notin DOMAIN requests
       THEN Pass(apiKey, <<now>>)
       ELSE LET recent == recentRequests(requests[apiKey]) IN
            IF Len(recent) >= requestsPerMinute
            THEN /\ limitResp' = [apiKey |-> apiKey, status |-> 429,
                                  retryAfter |-> retryAfter(recent)]
                 /\ UNCHANGED <<requests, admits>>
            ELSE Pass(apiKey, Append(recent, now))

\* Time passes to a later instant at which requests reach the limiter.
LimitInstants == {0, 1, 59999, 60000, 60001, 119999, 120000}
Later ==
    /\ \E t \in LimitInstants : t > now /\ now' = t
    /\ UNCHANGED <<apiKeys, quoteCache, chainVars, reqVars,
                   adminVars, bootVars, libVars, quoteVars>>

\* ---------------------------------------------------------------- vault
\* A call of encryptData with the iv crypto.randomBytes(12) drew.
Encrypt(data, iv) ==
    /\ sealed' = [data |-> data, iv |-> iv, out |-> encryptData(data, iv)]
    /\ UNCHANGED <<now, apiKeys, quoteCache, chainVars, reqVars,
                   adminVars, bootVars, opened, rateVars, quoteVars>>

\* A call of decryptData.
Decrypt(encryptedData, iv, authTag) ==
    /\ opened' = [encryptedData |-> encryptedData, iv |-> iv,
                  authTag |-> authTag,
                  out |-> decryptData(encryptedData, iv, authTag)]
    /\ UNCHANGED <<now, apiKeys, quoteCache, chainVars, reqVars,
                   adminVars, bootVars, sealed, rateVars, quoteVars>>

\* ----------------------------------------------------------- specification
\* The steps of a GET /quote whose database and chain answer, the reads of
\* one id returning before those of the next.
QuoteSteps ==
    \/ QuoteFindKey(TRUE)
    \/ QuoteAdmit
    \/ QuoteTokens(TRUE)
    \/ \E i \in DOMAIN quoteReq.reads :
          /\ \A j \in 1..(i - 1) : quoteReq.reads[j] = "done"
          /\ QuoteRead(i, TRUE)

\* A GET /quote for the finance datasets while no quote is stored: the one
\* quote of a behaviour that follows its redemptions.
OneQuote(apiKey) == quoteCache = <<>> /\ Quote(apiKey, "finance")

\* The steps of the redemptions past the middleware, each call answered or
\* failed.
RedeemSteps ==
    \/ \E r \in Reqs, rpcOk \in BOOLEAN : GetBalance(r, rpcOk)
    \/ \E r \in Reqs, rpcOk \in BOOLEAN : Resolve(r, rpcOk)
    \/ \E r \in Reqs, rpcOk \in BOOLEAN : ReadMetadata(r, rpcOk)
    \/ \E r \in Reqs, rpcOk \in BOOLEAN : Submit(r, rpcOk)
    \/ \E r \in Reqs, rpcOk \in BOOLEAN : Confirm(r, rpcOk)
    \/ \E r \in Reqs, netOk \in BOOLEAN : Fetch(r, netOk)
    \/ \E r \in Reqs, netOk \in BOOLEAN : ReadBody(r, netOk)

\* One quote and two redemptions of it, with every body: the middleware,
\* the balance read and the ownership loop are answered, every purchase,
\* receipt, fetch and body read is answered or fails.
Next ==
    \/ Tick
    \/ OneQuote("pk_a")
    \/ QuoteSteps
    \/ \E r \in Reqs, b \in Bodies :
          Receive(r, b.apiKey, b.isArray, b.tokenIds, b.quoteHash)
    \/ \E r \in Reqs : FindKey(r, TRUE)
    \/ \E r \in Reqs : Admit(r)
    \/ \E r \in Reqs : GetBalance(r, TRUE)
    \/ \E r \in Reqs : Resolve(r, TRUE)
    \/ \E r \in Reqs : ReadMetadata(r, TRUE)
    \/ \E r \in Reqs, rpcOk \in BOOLEAN : Submit(r, rpcOk)
    \/ \E r \in Reqs, rpcOk \in BOOLEAN : Confirm(r, rpcOk)
    \/ \E r \in Reqs, netOk \in BOOLEAN : Fetch(r, netOk)
    \/ \E r \in Reqs, netOk \in BOOLEAN : ReadBody(r, netOk)

Spec == Init /\ [][Next]_vars

\* The quote route under every request it may get, with the arrival of
\* redemptions: the life of a quote from issuance to refusal.
QuoteTags == {"finance", "misc", "none", NoParam}
QuoteKeys == {NoKey, "pk_a", "pk_x"}

\* The quote requests: every key asking for one tag, and one key asking
\* for every tag.
QuoteRequests ==
    { [apiKey |-> k, searchParam |-> "finance"] : k \in QuoteKeys }
    \cup { [apiKey |-> "pk_a", searchParam |-> t] : t \in QuoteTags }
\* The redemptions sent next to them: those the middleware and the body
\* check let through, with the token of the first quote or of the second,
\* and one for each way of being refused before the quote check.
QuoteBodies ==
    {b \in Bodies : b.tokenIds \in {<<>>, <<1>>} /\ b.apiKey # "pk_b"}
    \cup { [apiKey |-> "pk_a", isArray |-> TRUE, tokenIds |-> <<1>>,
            quoteHash |-> "t2"] }

\* The quote requests and two redemptions up to the quote check, the
\* second with or without a key, the database and each read of the chain
\* answering or failing.  While reads of a failed quote request still run,
\* the quote requests that arrive are those without a key.
NextQuote ==
    \/ Tick
    \/ \E q \in QuoteRequests :
          /\ orphans = EmptyBag \/ q.apiKey = NoKey
          /\ Quote(q.apiKey, q.searchParam)
    \/ \E dbOk \in BOOLEAN : QuoteFindKey(dbOk)
    \/ QuoteAdmit
    \/ \E rpcOk \in BOOLEAN : QuoteTokens(rpcOk)
    \/ \E i \in DOMAIN quoteReq.reads, rpcOk \in BOOLEAN : QuoteRead(i, rpcOk)
    \/ \E o \in BagToSet(orphans), rpcOk \in BOOLEAN : QuoteOrphan(o, rpcOk)
    \/ \E b \in QuoteBodies :
          Receive(1, b.apiKey, b.isArray, b.tokenIds, b.quoteHash)
    \/ \E apiKey \in {NoKey, "pk_a"} : Receive(2, apiKey, TRUE, <<1>>, "t1")
    \/ \E dbOk \in BOOLEAN : FindKey(1, dbOk)
    \/ FindKey(2, TRUE)
    \/ \E r \in Reqs : Admit(r)

SpecQuote == Init /\ [][NextQuote]_vars

\* The API keys from issuance to deletion: owners issue and delete keys
\* and users are deleted while a redemption presents a key of the start,
\* active or not, the key issued on the way, or none.
Bearers == {NoUser, UnknownUser, "u1", "u2"}
\* Deletions asked for: of an own key, of another owner's key, of a key
\* issued on the way, of an id no row has, and without a known user.
KeyDeletes ==
    { [authorization |-> u, id |-> id] :
        u \in {"u1", "u2"}, id \in {"k1", "k4", "k9"} }
    \cup { [authorization |-> UnknownUser, id |-> "k1"] }
\* Keys presented to the redemption route.
RedeemKeys == {NoKey, "pk_a", "pk_x", "pk_1"}

\* The steps of a POST /api-keys past its arrival.
CreateSteps ==
    \/ FindUser(TRUE)
    \/ authenticateUser
    \/ createKeyLimiter
    \/ InsertKey(TRUE)
    \/ KeyCreated

NextKeys ==
    \/ \E u \in Bearers : CreateKey(u, "ip1", TRUE, NoExpiry)
    \/ CreateSteps
    \/ \E d \in KeyDeletes : DeleteKey(d.authorization, d.id)
    \/ \E dbOk \in BOOLEAN : FindOwnKey(dbOk)
    \/ OwnKeyFound
    \/ \E dbOk \in BOOLEAN : RemoveKey(dbOk)
    \/ KeyDeleted
    \/ \E apiKey \in RedeemKeys : Receive(1, apiKey, TRUE, <<2>>, "t1")
    \/ FindKey(1, TRUE)
    \/ Admit(1)
    \/ \E u \in InitialUsers, onDelete \in OnDelete : DeleteUser(u, onDelete)

SpecKeys == Init /\ [][NextKeys]_vars

\* Both authentication paths while the clock passes the expiry date of the
\* key issued on the way, a key unknown until then, and every call of the
\* database on the two paths answers or fails: authenticateApiKey under
\* every key and under none, the middleware of the data routes under the
\* issued key and an inactive one.
PlainKeys == {NoKey, "pk_a", "pk_x", "pk_1"}

NextLookup ==
    \/ Tick
    \/ CreateKey("u1", "ip1", TRUE, TTL)
    \/ CreateSteps
    \/ \E apiKey \in PlainKeys : Authenticate(apiKey)
    \/ \E dbOk \in BOOLEAN : LookupKey(dbOk)
    \/ validateApiKey
    \/ \E updateOk \in BOOLEAN : UpdateLastUsed(updateOk)
    \/ LastUsedUpdated
    \/ \E usageOk \in BOOLEAN : LogUsage(usageOk)
    \/ authenticateApiKey
    \/ \E apiKey \in {"pk_x", "pk_1"} : Receive(1, apiKey, TRUE, <<2>>, "t1")
    \/ \E dbOk \in BOOLEAN : FindKey(1, dbOk)
    \/ Admit(1)

SpecLookup == Init /\ [][NextLookup]_vars

\* Issuance under the limiter: every owner from every address, with valid
\* and invalid bodies, over two windows.
NextIssue ==
    \/ \E u \in Bearers, ip \in Ips, validBody \in BOOLEAN :
          CreateKey(u, ip, validBody, NoExpiry)
    \/ \E dbOk \in BOOLEAN : FindUser(dbOk)
    \/ authenticateUser
    \/ createKeyLimiter
    \/ \E dbOk \in BOOLEAN : InsertKey(dbOk)
    \/ KeyCreated
    \/ Elapse

SpecIssue == Init /\ [][NextIssue]_vars

\* The environments, or files, that hold at most MaxEmpty names with the
\* empty string, and any of the other names with `value`.
Held(value) ==
    UNION {{Holding(s \ e, e, value) :
               e \in {x \in SUBSET s : Cardinality(x) <= MaxEmpty}} :
           s \in SUBSET EnvVars}

\* The start of the process under every environment and every .env file
\* in which, together, at most MaxEmpty names are held with the empty
\* string.
InitBoot ==
    LET empties(e) == Cardinality({n \in EnvVars : e[n] = ""}) IN
    /\ InitData
    /\ env \in Held(EnvValue)
    /\ dotenvFile \in Held(FileValue)
    /\ empties(env) + empties(dotenvFile) <= MaxEmpty
    /\ phase = "loading"
    /\ config = NoConfig

NextBoot ==
    \/ LoadModules
    \/ dotenvConfig
    \/ \E loginOk \in BOOLEAN : InitializeTwitter(loginOk)
    \/ Listen

SpecBoot == InitBoot /\ [][NextBoot]_vars

\* ------------------------------------------------------------------ claims
ExpiredReply == [status |-> 400, message |-> "Quote has expired",
                 datasets |-> <<>>]
InsufficientReply == [status |-> 400, message |-> "Insufficient balance",
                      datasets |-> <<>>]

\* The request r passed the middleware and the body validation.
Admitted(r) ==
    /\ wallet[r] # NoWallet
    /\ body[r].isArray
    /\ body[r].quoteHash # NoHash

\* The positions of the unowned datasets among the first n entries of dtp.
UnownedUpTo(dtp, n) == {i \in 1..n : ~dtp[i].owned}

\* C1: when the middleware lets a redemption through and its body is valid,
\* it goes on to the balance read only if its token is a key of the quote
\* cache whose age now - timestamp is at most 10000 ms at that moment; a
\* token that is absent, or older than that although its entry is still in
\* the cache, gets the quote-expired 400 response.
C1_QuoteGate ==
    [][\A r \in Reqs :
        (pc[r] = "keyData" /\ pc'[r] # "keyData" /\ Admitted(r)') =>
            LET q == body[r].quoteHash
                fresh == /\ q \in DOMAIN quoteCache
                         /\ now - quoteCache[q].timestamp <= TTL IN
            /\ pc'[r] = "getBalance" => fresh
            /\ ~fresh => pc'[r] = "done" /\ response'[r] = ExpiredReply
            /\ quoteCache' = quoteCache]_vars

\* A request was refused as expired although its entry is still retained.
C1_Witness ==
    \E r \in Reqs :
        /\ response[r] = ExpiredReply
        /\ body[r].quoteHash \in DOMAIN quoteCache
        /\ now - quoteCache[body[r].quoteHash].timestamp = TTL + 1

\* C2: a redemption answered with the quote-expired failure has read no
\* balance, checked no ownership, decrypted nothing, submitted no purchase
\* and fetched no payload, and its response carries no dataset results.
C2_ExpiredDoesNothing ==
    \A r \in Reqs :
        response[r].message = "Quote has expired" =>
            /\ calls[r] = {}
            /\ txs[r] = <<>>
            /\ datasetsToProcess[r] = <<>>
            /\ results[r] = <<>>
            /\ response[r].datasets = <<>>
            /\ response[r].status = 400

\* A request with an unknown token was answered, while the other request
\* is at work.
C2_Witness ==
    \E r, q \in Reqs :
        /\ response[r] = ExpiredReply
        /\ body[r].quoteHash = UnknownToken
        /\ calls[q] # {}

\* The prices, as read during ownership resolution, of the distinct datasets
\* request r found unowned.
UnownedPriceSum(r) ==
    LET dtp == datasetsToProcess[r]
        ids == {dtp[i].tokenId : i \in UnownedUpTo(dtp, Len(dtp))} IN
    SetSum([d \in ids |-> Catalog[d].currentPrice], ids)

\* Ownership resolution of request r ran to its end.
Resolved(r) ==
    /\ "getBalance" \in calls[r]
    /\ Len(body[r].tokenIds) > 0
    /\ Len(datasetsToProcess[r]) = Len(body[r].tokenIds)

\* C3: a redemption whose unowned requested datasets cost more in total
\* than the native balance it read is answered with the insufficient-balance
\* 400 response and has submitted no purchase transaction.
C3_Unaffordable ==
    \A r \in Reqs :
        (Resolved(r) /\ UnownedPriceSum(r) > balance[r]) =>
            /\ pc[r] = "done"
            /\ response[r] = InsufficientReply
            /\ txs[r] = <<>>
            /\ "writeContract" \notin calls[r]

\* The wallet with 12 asked for datasets 1 and 2 (10 + 5) and was refused.
C3_Witness ==
    \E r \in Reqs :
        /\ body[r].tokenIds = <<1, 2>>
        /\ balance[r] = 12
        /\ UnownedPriceSum(r) = 15
        /\ response[r] = InsufficientReply

\* C4: within a redemption, the payload fetch of a dataset that was unowned
\* at ownership resolution starts only after that dataset's purchase was
\* submitted and its receipt received, and no payload of such a dataset is
\* in the results before that.
C4_PurchaseBeforeFetch ==
    \A r \in Reqs :
        LET dtp == datasetsToProcess[r]
            reached == IF pc[r] \in {"fetch", "body"} THEN Len(results[r]) + 1
                       ELSE Len(results[r]) IN
        \A i \in 1..reached :
            ~dtp[i].owned =>
                LET k == Cardinality(UnownedUpTo(dtp, i)) IN
                /\ k <= Len(txs[r])
                /\ txs[r][k].tokenId = dtp[i].tokenId
                /\ txs[r][k].status \in {"success", "reverted"}

\* A freshly purchased dataset's payload is in the results.
C4_Witness ==
    \E r \in Reqs : \E i \in 1..Len(results[r]) :
        /\ results[r][i].kind = "data"
        /\ results[r][i].purchased
        /\ txs[r][1].status = "success"

\* Request r passed quote and affordability validation, started the purchase
\* step of a dataset (which opens with the key decryption) and ended with a
\* request-level failure.  Fetch failures never end a request, so the
\* failure is that of a decryption, a submission or a wait for a receipt,
\* and the dataset it struck is Current(r).
PurchaseFailed(r) ==
    /\ pc[r] = "done"
    /\ response[r].status = 500
    /\ "decryptData" \in calls[r]

\* C5: a redemption that passed quote and affordability validation and
\* whose purchase step (decrypt, submit, wait for the receipt) failed for a
\* dataset still completes with the 200 result list, holding one entry for
\* every dataset processed, the failed one included.
C5_PurchaseFailureInline ==
    \A r \in Reqs :
        (pc[r] = "done" /\ "decryptData" \in calls[r]) =>
            /\ response[r].status = 200
            /\ Len(response[r].datasets) = Len(datasetsToProcess[r])

\* C6: the response of a redemption in which the purchase step of a dataset
\* failed (decryption, submission or wait for the receipt) holds no payload
\* of that dataset; and every payload a response marks as just purchased
\* belongs to a purchase of that dataset that was submitted and whose
\* receipt arrived.
C6_NoPayloadAfterFailedPurchase ==
    \A r \in Reqs :
        LET out == response[r].datasets
            dtp == datasetsToProcess[r] IN
        /\ PurchaseFailed(r) =>
               \A i \in 1..Len(out) :
                   ~(out[i].kind = "data" /\ out[i].tokenId = Current(r).tokenId)
        /\ \A i \in 1..Len(out) :
               (out[i].kind = "data" /\ out[i].purchased) =>
                   LET k == Cardinality(UnownedUpTo(dtp, i)) IN
                   /\ k <= Len(txs[r])
                   /\ txs[r][k].tokenId = out[i].tokenId
                   /\ txs[r][k].status # "pending"

\* The wait for the receipt of a request's second purchase failed after the
\* payload of the first had been fetched.
C6_Witness ==
    \E r \in Reqs :
        /\ PurchaseFailed(r)
        /\ Len(txs[r]) = 2
        /\ txs[r][2].status = "pending"
        /\ results[r] # <<>>
        /\ results[r][1].kind = "data"
        /\ response[r].datasets = <<>>

\* C7: the fetch of a dataset's payload either goes on to the reading of
\* the body or appends an entry; the reading of the body appends one; an
\* entry appended by either is exactly one, for the dataset being fetched,
\* and leaves the earlier entries as they were; a dataset without content
\* locator gets an error entry; and when the entry is an error entry, no
\* other request's results or response change, the request responds 200
\* with the whole result list if that was its last dataset, and otherwise
\* moves on to the next dataset: to its fetch if owned, else to its
\* purchase step.
C7_FetchFailureInline ==
    [][\A r \in Reqs :
        /\ (pc[r] = "fetch" /\ pc'[r] # "fetch"
            /\ results'[r] = results[r]) =>
              /\ pc'[r] = "body"
              /\ datasetsToProcess[r][Len(results[r]) + 1].ipfsHash # ""
        /\ (pc[r] = "body" /\ pc'[r] # "body") => results'[r] # results[r]
        /\ (pc[r] \in {"fetch", "body"} /\ results'[r] # results[r]) =>
            LET dtp == datasetsToProcess[r]
                i == Len(results[r]) + 1 IN
            /\ Len(results'[r]) = i
            /\ SubSeq(results'[r], 1, i - 1) = results[r]
            /\ results'[r][i].tokenId = dtp[i].tokenId
            /\ dtp[i].ipfsHash = "" => results'[r][i].kind = "error"
            /\ results'[r][i].kind = "error" =>
                  /\ \A q \in Reqs \ {r} :
                        results'[q] = results[q] /\ response'[q] = response[q]
                  /\ IF i = Len(dtp)
                     THEN /\ pc'[r] = "done"
                          /\ response'[r] = [status |-> 200,
                                             message |-> "success",
                                             datasets |-> results'[r]]
                     ELSE IF dtp[i + 1].owned
                     THEN pc'[r] = "fetch" /\ response'[r] = NoResponse
                     ELSE /\ "decryptData" \in calls'[r]
                          /\ \/ pc'[r] = "submit"
                             \/ response'[r].message = "decrypt error"]_vars

\* A 200 response holding the error entry of one dataset next to the
\* payload of another.
C7_Witness ==
    \E r \in Reqs :
        /\ response[r].status = 200
        /\ Len(response[r].datasets) = 2
        /\ response[r].datasets[1].kind = "error"
        /\ response[r].datasets[2].kind = "data"

\* C8: within one request no two purchase transactions name the same
\* dataset id.
C8_OnePurchasePerDataset ==
    \A r \in Reqs :
        \A i, j \in 1..Len(txs[r]) :
            i # j => txs[r][i].tokenId # txs[r][j].tokenId

\* The requests that have a purchase of wallet `address` in flight:
\* submitted, and waiting for its receipt.
InFlight(address) ==
    {r \in Reqs : /\ pc[r] = "wait"
                  /\ wallet[r].address = address
                  /\ txs[r][Len(txs[r])].status = "pending"}

\* C9: at most one purchase transaction per custodial wallet is in flight
\* at any time.
C9_OneInFlightPerWallet ==
    \A address \in Wallets : Cardinality(InFlight(address)) <= 1

\* The position in dtp of its k-th unowned dataset.
UnownedAt(dtp, k) ==
    CHOOSE i \in 1..Len(dtp) :
        ~dtp[i].owned /\ Cardinality(UnownedUpTo(dtp, i)) = k

\* C10: the k-th purchase transaction of a request is that of the k-th
\* unowned dataset in request order; when it is submitted every dataset
\* before that one has its result (payload or captured error), and every
\* earlier purchase has its receipt.
C10_SequentialPurchases ==
    \A r \in Reqs :
        LET dtp == datasetsToProcess[r]
            n == Len(txs[r]) IN
        /\ n <= Cardinality(UnownedUpTo(dtp, Len(dtp)))
        /\ \A k \in 1..n :
               /\ txs[r][k].tokenId = dtp[UnownedAt(dtp, k)].tokenId
               /\ Len(results[r]) >= UnownedAt(dtp, k) - 1
               /\ k < n => /\ txs[r][k].status # "pending"
                           /\ Len(results[r]) >= UnownedAt(dtp, k)

\* The second purchase of a request is in flight, the first one confirmed
\* and fetched.
C10_Witness ==
    \E r \in Reqs :
        /\ pc[r] = "wait"
        /\ Len(txs[r]) = 2
        /\ txs[r][1].status = "success"
        /\ txs[r][2].status = "pending"
        /\ Len(results[r]) = 1

\* The ledger reports that the wallet owns the dataset: it holds the token
\* (a grant) or a purchase of it was confirmed.
Owns(address, tokenId) ==
    tokenBalance[address][tokenId] > 0 \/ purchased[address][tokenId]

\* The two answers of the ledger say that the wallet owns the dataset.
SaysOwned(o) == o.userBalance > 0 \/ o.hasPurchased

\* C11: ownership the ledger reports is never lost; the ownership reads of
\* a redemption made while the ledger reports ownership say so, and the
\* entry made from them marks the dataset owned; a purchase is submitted
\* only for a dataset the request's check found unowned; and the result
\* entry of a dataset found owned says purchased = false.
C11_OwnedNeverPurchased ==
    [][/\ \A a \in Wallets, d \in Datasets : Owns(a, d) => Owns(a, d)'
       /\ \A r \in Reqs :
            LET dtp == datasetsToProcess'[r]
                n == Len(datasetsToProcess[r])
                t == Len(txs[r])
                m == Len(results[r]) IN
            /\ (pc[r] = "resolve" /\ pc'[r] = "metadata"
                /\ Owns(wallet[r].address, NextId(r))) =>
                  SaysOwned(ownership'[r])
            /\ (Len(dtp) = n + 1 /\ SaysOwned(ownership[r]))
                  => dtp[n + 1].owned
            /\ Len(txs'[r]) = t + 1 =>
                  /\ ~dtp[m + 1].owned
                  /\ txs'[r][t + 1].tokenId = dtp[m + 1].tokenId
            /\ Len(txs'[r]) \in {t, t + 1}
            /\ (Len(results'[r]) = m + 1 /\ dtp[m + 1].owned)
                  => ~results'[r][m + 1].purchased]_vars

\* A redemption made after the wallet's purchase of a dataset was confirmed
\* got its payload without a purchase of its own.
C11_Witness ==
    \E r \in Reqs :
        /\ pc[r] = "done"
        /\ response[r].status = 200
        /\ txs[r] = <<>>
        /\ Len(response[r].datasets) = 1
        /\ purchased[wallet[r].address][response[r].datasets[1].tokenId]
        /\ response[r].datasets[1].kind = "data"
        /\ ~response[r].datasets[1].purchased

\* The datasets that carry the tag.
Tagged(tag) == {d \in Datasets : tag \in Catalog[d].tags}

\* C12: a quote request that succeeds returns a token that was no key of
\* the quote cache before and is one after, stamped with the time it was
\* stored at and holding the datasets of a tag that has some, each with its
\* price; and a redemption the middleware lets through with a valid body
\* that presents an issued token is accepted exactly when
\* now <= timestamp + 10000 at its check, and refused as expired otherwise.
C12_QuoteLife ==
    [][/\ quoteCache' # quoteCache =>
            LET h == quoteResp'.quoteHash
                data == quoteCache'[h].data IN
            /\ quoteResp'.status = 200
            /\ h \notin DOMAIN quoteCache
            /\ DOMAIN quoteCache' = DOMAIN quoteCache \cup {h}
            /\ quoteCache'[h].timestamp = now
            /\ Len(data) >= 1
            /\ \E tag \in QuoteTags :
                   {data[i].tokenId : i \in 1..Len(data)} = Tagged(tag)
            /\ \A i \in 1..Len(data) :
                   data[i].price = Catalog[data[i].tokenId].currentPrice
       /\ (quoteResp' # quoteResp /\ quoteResp'.status = 200) =>
            quoteResp'.quoteHash \in DOMAIN quoteCache' \ DOMAIN quoteCache
       /\ \A r \in Reqs :
            (/\ pc[r] = "keyData" /\ pc'[r] # "keyData" /\ Admitted(r)'
             /\ body[r].quoteHash \in DOMAIN quoteCache) =>
                LET born == quoteCache[body[r].quoteHash].timestamp IN
                IF now <= born + TTL
                THEN pc'[r] = "getBalance" /\ response'[r] = NoResponse
                ELSE pc'[r] = "done" /\ response'[r] = ExpiredReply]_vars

\* One request redeemed the first quote within 10000 ms of its issuance
\* and was accepted, another one a millisecond after that time was refused,
\* and a second quote request got a token of its own.
C12_Witness ==
    \E r, q \in Reqs :
        /\ quoteResp = [status |-> 200, quoteHash |-> "t2"]
        /\ DOMAIN quoteCache = {"t1", "t2"}
        /\ body[r].quoteHash = "t1" /\ pc[r] = "getBalance"
        /\ body[q].quoteHash = "t1" /\ response[q] = ExpiredReply
        /\ now = quoteCache["t1"].timestamp + TTL + 1

\* C13: no step removes or changes an entry of the quote cache, and a step
\* of a redemption request (its arrival included, accepted or refused)
\* leaves the whole cache as it was.
C13_AbsoluteExpiry ==
    [][/\ \A h \in DOMAIN quoteCache :
            h \in DOMAIN quoteCache' /\ quoteCache'[h] = quoteCache[h]
       /\ reqVars' # reqVars => quoteCache' = quoteCache]_vars

\* A quote issued at 0 was redeemed at 10000 and again, with a refusal, at
\* 10001: the first redemption did not extend it.
C13_Witness ==
    \E r, q \in Reqs : \E h \in DOMAIN quoteCache :
        /\ quoteCache[h].timestamp = 0
        /\ body[r].quoteHash = h /\ "getBalance" \in calls[r]
        /\ body[q].quoteHash = h /\ response[q] = ExpiredReply
        /\ now = TTL + 1

\* Some stored record has the SHA-256 hash of the key, is active, and has no
\* expiry or one strictly after the date.
ValidKey(apiKey, date) ==
    \E row \in apiKeys :
        /\ row.key = <<"sha256", apiKey>>
        /\ row.isActive
        /\ (row.expiresAt = NoExpiry \/ date < row.expiresAt)

\* C14: the lookup of the middleware of the data routes, and that of
\* validateApiKey, finds a record exactly when the database answers and the
\* key is valid as it executes (a record with its hash, active, expiresAt
\* null or strictly later than the date of the lookup); the middleware
\* lets a request through, and authenticateApiKey a key, only if its
\* lookup found a record; a request whose lookup found none ends in the
\* middleware with 401 (500 if the database failed) and reaches no
\* handler; such a key is answered 401 by authenticateApiKey and leaves no
\* usage record.
C14_OnlyValidKeys ==
    [][/\ \A r \in Reqs :
            /\ (pc[r] = "findFirst" /\ pc'[r] # "findFirst") =>
                  (keyData'[r].rows # {} <=>
                      (keyData'[r].ok /\ ValidKey(body[r].apiKey, asOf[r])))
            /\ (pc[r] = "keyData" /\ pc'[r] # "keyData") =>
                  /\ wallet'[r] # NoWallet => keyData[r].rows # {}
                  /\ pc'[r] # "done" => wallet'[r] # NoWallet
                  /\ keyData[r].rows = {} =>
                        /\ pc'[r] = "done"
                        /\ response'[r].status =
                              IF keyData[r].ok THEN 401 ELSE 500
                        /\ wallet'[r] = NoWallet
                        /\ calls'[r] = {}
       /\ (authReq.pc = "findFirst" /\ authReq'.pc # "findFirst") =>
            (authReq'.id # "" <=>
                (authReq'.ok /\ ValidKey(authReq.apiKey, authReq.asOf)))
       /\ (authReq.pc = "key" /\ authReq'.pc # "key" /\ authReq.id = "") =>
            /\ authResp' = [apiKey |-> authReq.apiKey, found |-> FALSE,
                            status |-> 401]
            /\ authReq' = NoAuthReq
       /\ usage' # usage => authReq.id # ""
       /\ (authResp' # authResp /\ authResp'.status = 0
           /\ authResp' # NoAuthResp) =>
            authResp'.found /\ authReq.id # ""]_vars

\* At the very instant a record expires, its key is refused on both paths:
\* by authenticateApiKey, which let it through at instant 0, and by the
\* middleware.
C14_Witness ==
    \E row \in apiKeys :
        /\ row.expiresAt = now
        /\ row.key = hashApiKey("pk_1")
        /\ row.lastUsed = 0
        /\ body[1].apiKey = "pk_1"
        /\ response[1].message = "Invalid API key"
        /\ authResp = [apiKey |-> "pk_1", found |-> FALSE, status |-> 401]

\* C15: a lookup by validateApiKey that found a valid record succeeds,
\* whether or not the lastUsed update and the usage insert went through.
C15_BestEffortRefresh ==
    authResp.found => authResp.status = 0

\* The stored record the deletion request in flight names and its sender
\* owns.
OwnRow ==
    {row \in apiKeys : row.id = keyReq.id /\ row.userId = keyReq.authorization}

\* C16: a step of DELETE /api-keys/:id that changes the stored records
\* removes exactly the record with that id, which belongs to the
\* authenticated sender, and the request is answered 200; the lookup of a
\* request naming an id that has no record, or a record of another owner,
\* finds nothing, and the request is answered 404 (500 if the database
\* fails) and leaves the records as they were.
C16_DeleteOwnOnly ==
    [][keyReq.op = "delete" =>
        /\ (keyReq' # keyReq /\ apiKeys' # apiKeys) =>
              /\ OwnRow # {}
              /\ apiKeys' = apiKeys \ OwnRow
              /\ keyReq'.pc = "deleted" /\ keyReq'.ok
        /\ (keyReq.pc = "deleted" /\ keyReq' # keyReq /\ keyReq.ok) =>
              keyResp' = [op |-> "delete", userId |-> keyReq.authorization,
                          ip |-> "", id |-> keyReq.id, status |-> 200,
                          nth |-> 0]
        /\ (keyReq.pc = "findFirst" /\ keyReq' # keyReq /\ OwnRow = {}) =>
              ~keyReq'.found /\ apiKeys' = apiKeys
        /\ (keyReq.pc = "key" /\ keyReq' # keyReq /\ ~keyReq.found) =>
              /\ keyResp'.op = "delete"
              /\ keyResp'.status = IF keyReq.ok THEN 404 ELSE 500
              /\ keyReq' = NoKeyReq
              /\ apiKeys' = apiKeys]_vars

\* A request to delete another owner's key got 404 and the key is there.
C16_Witness ==
    /\ keyResp.op = "delete" /\ keyResp.status = 404
    /\ keyResp.userId = "u2" /\ keyResp.id = "k1"
    /\ \E row \in apiKeys : row.id = "k1" /\ row.userId = "u1"

\* The plaintext keys issued so far, the one whose record is about to be
\* stored left out, and the wallet address bound to each.
IssuedKeys ==
    {"pk_a", "pk_b", "pk_x"}
    \cup {NewKeys[i].apiKey :
            i \in {j \in 1..issued : ~(keyReq.pc = "create" /\ j = issued)}}
KeyAddress ==
    [k \in {"pk_a", "pk_b", "pk_x", "pk_1"} |->
        IF k = "pk_a" THEN "0xA" ELSE IF k = "pk_b" THEN "0xB"
        ELSE IF k = "pk_x" THEN "0xC" ELSE "0xD"]
\* No stored record holds the key's hash or its wallet.
Gone(k, rows) ==
    \A row \in rows :
        /\ row.key # <<"sha256", k>>
        /\ row.publicKey # KeyAddress[k]
        /\ row.encryptedPrivateKey[3] # KeyAddress[k]

\* C17: a deletion that went through leaves no record with the id, the
\* hash or the wallet fields of the deleted one, and is answered 200; an
\* issued key that has no record never has one again, whatever is issued,
\* looked up or deleted later; and a lookup of such a key finds nothing
\* and its request is refused as an invalid key.
C17_DeletedStaysDeleted ==
    [][/\ (keyReq.pc = "delete" /\ keyReq'.pc = "deleted" /\ keyReq'.ok) =>
            /\ \E old \in apiKeys : old.id = keyReq.id
            /\ \A old \in {row \in apiKeys : row.id = keyReq.id} :
                 \A row \in apiKeys' :
                    /\ row.id # old.id
                    /\ row.key # old.key
                    /\ row.publicKey # old.publicKey
                    /\ row.encryptedPrivateKey # old.encryptedPrivateKey
                    /\ row.keyPairAuthTag # old.keyPairAuthTag
       /\ (keyResp' # keyResp /\ keyResp'.op = "delete"
           /\ keyResp'.status = 200) =>
            \A row \in apiKeys' : row.id # keyResp'.id
       /\ \A k \in IssuedKeys : Gone(k, apiKeys) => Gone(k, apiKeys')
       /\ \A r \in Reqs :
            /\ (/\ pc[r] = "findFirst" /\ pc'[r] # "findFirst"
                /\ body[r].apiKey \in IssuedKeys
                /\ Gone(body[r].apiKey, apiKeys)) =>
                   keyData'[r] = NoKeyData
            /\ (/\ pc[r] = "keyData" /\ pc'[r] # "keyData"
                /\ keyData[r] = NoKeyData) =>
                   /\ pc'[r] = "done"
                   /\ response'[r].status = 401
                   /\ response'[r].message = "Invalid API key"]_vars

\* Key k1 was deleted by its owner while another key is stored, and a
\* request presenting the deleted key was refused.
C17_Witness ==
    /\ keyResp = [op |-> "delete", userId |-> "u1", ip |-> "", id |-> "k1",
                  status |-> 200, nth |-> 0]
    /\ issued = 1
    /\ \E row \in apiKeys : row.id = "k4"
    /\ body[1].apiKey = "pk_a"
    /\ response[1].message = "Invalid API key"

\* C18: an issuance request of an authenticated owner is refused with the
\* rate-limit error exactly when it is the owner's sixth or later in the
\* window, whatever address it comes from and whatever other owners sent.
C18_PerOwnerCap ==
    (keyResp.op = "create" /\ keyResp.status # 401) =>
        (keyResp.status = 429 <=> keyResp.nth > MaxIssue)

\* C19: a request to delete a user removes the user together with all of
\* the user's API key records, and every record's owner is a stored user.
C19_UserDeleteCascades ==
    /\ keyResp.op = "deleteUser" =>
          /\ keyResp.status = 200
          /\ keyResp.userId \notin users
          /\ \A row \in apiKeys : row.userId # keyResp.userId
    /\ \A row \in apiKeys : row.userId \in users

\* C20: a process that serves requests was started with the chain endpoint,
\* the registry address, the encryption key and the gateway credentials all
\* set, and encrypts with the configured key.
C20_ConfigRequired ==
    phase = "listening" =>
        /\ \A n \in ConfigVars : ~Falsy(env[n])
        /\ config.ENCRYPTION_KEY = ENCRYPTION_KEY

\* The vault alone: plaintexts sealed under drawn ivs, and what was sealed
\* opened again with its own iv and tag, with another iv, with the tag of
\* another sealing, and with its own tag spelt in the other ways.
VaultData == {"privA", "privB"}
VaultIvs == {"iv1", "iv2"}
VaultTags ==
    LET tags == {encryptData(d, iv).authTag : d \in VaultData, iv \in VaultIvs}
    IN tags \cup {Append(t, sp) : t \in tags, sp \in Spellings}

NextVault ==
    \/ \E data \in VaultData, iv \in VaultIvs : Encrypt(data, iv)
    \/ \E iv \in VaultIvs, authTag \in VaultTags :
          /\ sealed # NoSealed
          /\ Decrypt(sealed.out.encryptedData, iv, authTag)

SpecVault == Init /\ [][NextVault]_vars

\* C21: decryptData returns the plaintext that was sealed when it is given
\* the iv and the auth tag encryptData produced with the ciphertext, and
\* throws, returning no plaintext, when the iv or the auth tag is another.
C21_RoundTrip ==
    opened # NoOpened =>
        LET made == encryptData(opened.encryptedData[2], opened.encryptedData[3])
            same == opened.iv = made.iv /\ opened.authTag = made.authTag IN
        /\ same => opened.out = opened.encryptedData[2]
        /\ ~same => opened.out = DecryptError

\* The answers of the middleware and of the body validation of POST
\* /datasets.
EarlyReplies ==
    {"API key is required", "Invalid API key", "Invalid request body"}

\* C22: a GET /quote answered 401 or 400 made no call to the registry and
\* wrote no quote cache entry; a POST /datasets without a key, with an
\* inactive key or with an invalid body gets no further than the
\* middleware and the body validation, which answer 401 or 400 (500 if
\* the database fails), and a POST /datasets so answered made no external
\* call (no ledger read, no decryption, no purchase), submitted no
\* transaction, and its steps left the quote cache and the chain as they
\* were.
C22_FailBeforeEffects ==
    [][/\ quoteResp'.status \in {400, 401} =>
            quoteCalls' = {} /\ quoteCache' = quoteCache
       /\ \A r \in Reqs :
            (/\ pc[r] \in {"idle", "findFirst", "keyData"} /\ pc'[r] # pc[r]
             /\ \/ body'[r].apiKey \in {NoKey, "pk_x"}
                \/ ~body'[r].isArray
                \/ body'[r].quoteHash = NoHash) =>
                /\ pc'[r] \in {"findFirst", "keyData", "done"}
                /\ pc'[r] = "done" =>
                      /\ response'[r].status \in {400, 401, 500}
                      /\ response'[r].status # 500 =>
                            response'[r].message \in EarlyReplies
                /\ calls'[r] = {} /\ txs'[r] = <<>>
                /\ quoteCache' = quoteCache
                /\ UNCHANGED chainVars
       /\ \A r \in Reqs :
            (pc'[r] = "done" /\ response'[r].message \in EarlyReplies) =>
                calls'[r] = {} /\ txs'[r] = <<>>]_vars

\* With a quote in the cache, a quote request was refused for its key, one
\* redemption for its body and one for its missing key.
C22_Witness ==
    /\ quoteResp.status = 401
    /\ "t1" \in DOMAIN quoteCache
    /\ response[1].message = "Invalid request body"
    /\ response[2].message = "API key is required"

\* Redemptions while database, chain and gateway all answer: the wallet of
\* key pk_a, topped up or not, redeems the datasets of the finance quote.
Deposits == {8}
HappyLists == {<<1>>, <<2>>, <<1, 2>>, <<2, 2>>}

NextHappy ==
    \/ Tick
    \/ OneQuote("pk_a")
    \/ QuoteSteps
    \/ \E amount \in Deposits : Fund("0xA", amount)
    \/ \E r \in Reqs, l \in {t \in HappyLists : Len(t) <= MaxIds} :
          Receive(r, "pk_a", TRUE, l, "t1")
    \/ \E r \in Reqs : FindKey(r, TRUE)
    \/ \E r \in Reqs : Admit(r)
    \/ \E r \in Reqs : GetBalance(r, TRUE)
    \/ \E r \in Reqs : Resolve(r, TRUE)
    \/ \E r \in Reqs : ReadMetadata(r, TRUE)
    \/ \E r \in Reqs : Submit(r, TRUE)
    \/ \E r \in Reqs : Confirm(r, TRUE)
    \/ \E r \in Reqs : Fetch(r, TRUE)
    \/ \E r \in Reqs : ReadBody(r, TRUE)

SpecHappy == Init /\ [][NextHappy]_vars

\* C23: when every call succeeds, a finished redemption whose ownership
\* resolution ran to its end with an aggregate price within the balance it
\* read is answered 200 with one entry per requested id, in request order,
\* each with a payload, and purchased = true exactly for the ids resolved as
\* unowned.
C23_HappyPath ==
    \A r \in Reqs :
        (/\ pc[r] = "done"
         /\ Resolved(r)
         /\ totalPrice[r] <= balance[r]) =>
            /\ response[r].status = 200
            /\ Len(response[r].datasets) = Len(body[r].tokenIds)
            /\ \A i \in 1..Len(body[r].tokenIds) :
                  /\ response[r].datasets[i].tokenId = body[r].tokenIds[i]
                  /\ response[r].datasets[i].kind = "data"
                  /\ response[r].datasets[i].data # Undefined
                  /\ response[r].datasets[i].purchased
                        = ~datasetsToProcess[r][i].owned

\* The spec's scenario, ids [1, 2] priced [10, 5] with balance 20, both
\* purchased; and a later request for the same ids that owns both.
C23_Witness ==
    /\ body[1].tokenIds = <<1, 2>> /\ balance[1] = 20
    /\ response[1].status = 200
    /\ response[1].datasets[1].purchased /\ response[1].datasets[2].purchased
    /\ body[2].tokenIds = <<1, 2>>
    /\ response[2].status = 200
    /\ ~response[2].datasets[1].purchased
    /\ ~response[2].datasets[2].purchased

\* Redemptions of the wallet of pk_a with the scheduling the code can count
\* on: every RPC call and every fetch ends, answered or failed, because the
\* http transport and the gateway time out.  The wait for the receipt has no
\* such bound in the repository: the handler passes waitForTransactionReceipt
\* the hash alone and sets no timer, so the wait ends if the transaction is
\* mined or the library gives up by itself, and otherwise goes on.  Both
\* are behaviours: Confirm may be taken and is not required to be.
WaitLists == {<<1>>, <<2>>, <<2, 2>>}

NextWait ==
    \/ OneQuote("pk_a")
    \/ QuoteSteps
    \/ \E r \in Reqs, l \in {t \in WaitLists : Len(t) <= MaxIds} :
          Receive(r, "pk_a", TRUE, l, "t1")
    \/ \E r \in Reqs : FindKey(r, TRUE)
    \/ \E r \in Reqs : Admit(r)
    \/ RedeemSteps

SpecWait ==
    /\ Init
    /\ [][NextWait]_vars
    /\ \A r \in Reqs :
          /\ WF_vars(FindKey(r, TRUE))
          /\ WF_vars(Admit(r))
          /\ WF_vars(\E rpcOk \in BOOLEAN : GetBalance(r, rpcOk))
          /\ WF_vars(\E rpcOk \in BOOLEAN : Resolve(r, rpcOk))
          /\ WF_vars(\E rpcOk \in BOOLEAN : ReadMetadata(r, rpcOk))
          /\ WF_vars(\E rpcOk \in BOOLEAN : Submit(r, rpcOk))
          /\ WF_vars(\E netOk \in BOOLEAN : Fetch(r, netOk))
          /\ WF_vars(\E netOk \in BOOLEAN : ReadBody(r, netOk))

\* The request r has ended and the wait for the receipt of its last
\* purchase threw: the transaction was submitted and not confirmed.
WaitGaveUp(r) ==
    /\ pc[r] = "done"
    /\ txs[r] # <<>>
    /\ txs[r][Len(txs[r])].status = "pending"

C25_Classification ==
    [][\A r \in Reqs :
        /\ (pc[r] = "resolve" /\ pc'[r] = "metadata") =>
              /\ ownership'[r] =
                    [userBalance |->
                        tokenBalance[wallet[r].address][NextId(r)],
                     hasPurchased |->
                        purchased[wallet[r].address][NextId(r)]]
              /\ datasetsToProcess'[r] = datasetsToProcess[r]
              /\ totalPrice'[r] = totalPrice[r]
        /\ (pc[r] = "metadata"
            /\ datasetsToProcess'[r] # datasetsToProcess[r]) =>
            LET n == Len(datasetsToProcess[r]) + 1
                id == body[r].tokenIds[n]
                entry == datasetsToProcess'[r][n]
                unowned == /\ ownership[r].userBalance = 0
                           /\ ~ownership[r].hasPurchased IN
            /\ Len(datasetsToProcess'[r]) = n
            /\ SubSeq(datasetsToProcess'[r], 1, n - 1) = datasetsToProcess[r]
            /\ entry.tokenId = id
            /\ entry.owned <=> (\/ ownership[r].userBalance > 0
                                \/ ownership[r].hasPurchased)
            /\ ~entry.owned <=> unowned
            /\ totalPrice'[r] = totalPrice[r]
                    + (IF unowned THEN Catalog[id].currentPrice ELSE 0)
        /\ datasetsToProcess'[r] # datasetsToProcess[r] =>
              pc[r] = "metadata"]_vars

\* One request found its dataset owned on hasPurchased alone, the other
\* found one unowned and priced it.
C25_Witness ==
    \E r, q \in Reqs :
        /\ datasetsToProcess[r] # <<>>
        /\ datasetsToProcess[r][1].owned
        /\ tokenBalance[wallet[r].address][datasetsToProcess[r][1].tokenId] = 0
        /\ datasetsToProcess[q] # <<>>
        /\ ~datasetsToProcess[q][1].owned
        /\ totalPrice[q] > 0

\* The token ids of the dataset list stored under a quote token.
QuotedIds(quoteHash) ==
    {quoteCache[quoteHash].data[i].tokenId :
        i \in 1..Len(quoteCache[quoteHash].data)}

\* C26: every dataset a redemption resolves ownership of, submits a
\* purchase for or fetches is in the list stored under the token it
\* presented.
C26_OnlyQuotedDatasets ==
    \A r \in Reqs :
        body[r].quoteHash \in DOMAIN quoteCache =>
            /\ \A i \in 1..Len(datasetsToProcess[r]) :
                  datasetsToProcess[r][i].tokenId \in QuotedIds(body[r].quoteHash)
            /\ \A i \in 1..Len(txs[r]) :
                  txs[r][i].tokenId \in QuotedIds(body[r].quoteHash)
            /\ \A i \in 1..Len(results[r]) :
                  results[r][i].tokenId \in QuotedIds(body[r].quoteHash)

\* C27: once a redemption was refused because its token had expired, the
\* token is no key of the quote cache.
C27_LazyCollection ==
    \A r \in Reqs :
        (pc[r] = "done" /\ response[r] = ExpiredReply) =>
            body[r].quoteHash \notin DOMAIN quoteCache

\* C28: a redemption whose decryption of the private key failed has ended
\* with a failure response that carries no dataset, has submitted no
\* purchase transaction and has made no writeContract call.
C28_DecryptFailureFatal ==
    \A r \in Reqs :
        (/\ "decryptData" \in calls[r]
         /\ decryptData(wallet[r].encryptedPrivateKey, wallet[r].keyPairIV,
                        wallet[r].keyPairAuthTag) = DecryptError) =>
            /\ pc[r] = "done"
            /\ response[r].status = 500
            /\ response[r].datasets = <<>>
            /\ txs[r] = <<>>
            /\ "writeContract" \notin calls[r]

\* The wallet of pk_b, whose stored tag does not verify, fetched a dataset
\* it owns and then failed to decrypt its key for one it does not.
C28_Witness ==
    \E r \in Reqs :
        /\ wallet[r].address = "0xB"
        /\ "decryptData" \in calls[r]
        /\ results[r] # <<>>
        /\ response[r].status = 500

RECURSIVE ValueSum(_)
\* The sum of the values attached to a sequence of transactions.
ValueSum(sent) ==
    IF sent = <<>> THEN 0 ELSE Head(sent).value + ValueSum(Tail(sent))

\* C29: the values of the purchase transactions a request has submitted add
\* up to at most the native balance the request read at its start, and the
\* k-th of them carries the price the request's ownership resolution
\* recorded for the k-th unowned dataset, the registry's price of it.
C29_SpendWithinBalance ==
    \A r \in Reqs :
        txs[r] # <<>> =>
            /\ ValueSum(txs[r]) <= balance[r]
            /\ ValueSum(txs[r]) <= totalPrice[r]
            /\ \A k \in 1..Len(txs[r]) :
                  LET dataset ==
                        datasetsToProcess[r][UnownedAt(datasetsToProcess[r], k)]
                  IN /\ txs[r][k].tokenId = dataset.tokenId
                     /\ txs[r][k].value = dataset.price
                     /\ txs[r][k].value = Catalog[dataset.tokenId].currentPrice

\* A request has submitted two purchases against the balance it read, while
\* the wallet's balance on the chain has dropped below that.
C29_Witness ==
    \E r \in Reqs :
        /\ Len(txs[r]) = 2
        /\ ValueSum(txs[r]) > 0
        /\ nativeBalance[wallet[r].address] < balance[r]

\* The per-key limiter alone, built with every limit up to MaxRate, under
\* requests of two keys and requests without a key.
NextRate ==
    \/ \E n \in 0..MaxRate : Build(n)
    \/ \E apiKey \in {NoKey, "pk_a", "pk_b"} : Limit(apiKey)
    \/ Later

SpecRate == Init /\ [][NextRate]_vars

\* The requests of a key the limiter let through in the minute ending at t.
AdmittedIn(apiKey, t) ==
    {i \in 1..Len(admits[apiKey]) :
        t - Minute < admits[apiKey][i] /\ admits[apiKey][i] <= t}

\* C30: for every key and every instant, the limiter let through at most
\* requestsPerMinute requests of the key in the minute ending at that
\* instant; and a refusal is a 429 whose retryAfter is between 1 and 60.
C30_PerKeyRate ==
    /\ \A apiKey \in DOMAIN admits, t \in LimitInstants :
          Cardinality(AdmittedIn(apiKey, t)) <= requestsPerMinute
    /\ limitResp.status = 429 => limitResp.retryAfter \in 1..60

\* C31: every result entry that carries a payload has the kind that the
\* response content type and the dataset's name determine (json, then csv,
\* then spreadsheet, then binary) and carries the dataset's name and
\* description, whether the dataset was owned before or purchased in this
\* request.
C31_KindAndMetadata ==
    \A r \in Reqs : \A i \in 1..Len(results[r]) :
        LET entry == results[r][i]
            metadata == Catalog[entry.tokenId] IN
        entry.kind = "data" =>
            /\ entry.data = PayloadKind(metadata.contentType, metadata.name)
            /\ entry.name = metadata.name
            /\ entry.description = metadata.description

\* Quotes requested with key pk_b and redeemed with pk_a and with pk_b: in
\* every state the token in the cache was issued to pk_b.
ShareLists == {<<1>>, <<2>>, <<2, 3>>}

NextShare ==
    \/ Tick
    \/ OneQuote("pk_b")
    \/ QuoteSteps
    \/ \E r \in Reqs, apiKey \in {"pk_a", "pk_b"},
          l \in {t \in ShareLists : Len(t) <= MaxIds} :
          Receive(r, apiKey, TRUE, l, "t1")
    \/ \E r \in Reqs : FindKey(r, TRUE)
    \/ \E r \in Reqs : Admit(r)
    \/ RedeemSteps

SpecShare == Init /\ [][NextShare]_vars

\* C32: a redemption the middleware lets through is accepted exactly when
\* the token it presents is in the cache and at most TTL old, whoever the
\* token was issued to; the wallet it works with is that of its own key,
\* and a confirmed purchase takes its value from that wallet and records
\* the purchase for it, leaving every other wallet as it was.
C32_TokenNotBound ==
    [][\A r \in Reqs :
        /\ (pc[r] = "keyData" /\ pc'[r] # "keyData"
            /\ wallet'[r] # NoWallet) =>
              /\ wallet'[r].address = KeyAddress[body[r].apiKey]
              /\ pc'[r] = "getBalance" <=>
                    /\ body[r].quoteHash \in DOMAIN quoteCache
                    /\ now - quoteCache[body[r].quoteHash].timestamp <= TTL
        /\ pc[r] = "wait" /\ pc'[r] # "wait" =>
              \A a \in Wallets :
                  a # KeyAddress[body[r].apiKey] =>
                      /\ nativeBalance'[a] = nativeBalance[a]
                      /\ purchased'[a] = purchased[a]]_vars

\* A token issued to pk_b was redeemed with pk_a, whose wallet paid, and
\* with pk_b, whose wallet did not pay for it.
C32_Witness ==
    \E r, q \in Reqs :
        /\ quoteResp.status = 200
        /\ body[r].apiKey = "pk_a"
        /\ txs[r] # <<>> /\ txs[r][1].status = "success"
        /\ nativeBalance["0xA"] < InitBalance["0xA"]
        /\ nativeBalance["0xB"] = InitBalance["0xB"]
        /\ body[q].apiKey = "pk_b"
        /\ "getBalance" \in calls[q]

====
